---- MODULE Spec2Model ----
(***************************************************************************)
(* Model of the match store of scanmem (targetmem.h: the swath store,      *)
(* allocate_enough_to_reach and add_element) and of the command handlers   *)
(* of handlers.c that drive it.                                            *)
(*                                                                         *)
(* Local addresses (pointers into the scanner's own heap) and remote       *)
(* addresses (addresses in the target) are integers; NULL is 0.  All       *)
(* values stay far below the width of unsigned long, so no arithmetic of   *)
(* the modelled runs wraps.                                                *)
(***************************************************************************)
EXTENDS Integers, Sequences, FiniteSets, TLC

(* ---------------------------- bounds ----------------------------------- *)

\* remote addresses handed to add_element are 1..MaxAddr
MaxAddr == 11

\* add_element is called at most MaxAdds times on a store
MaxAdds == 4

(* ------------------------ program constants ---------------------------- *)

NULL == 0

\* sizeof(matches_and_old_values_array): two unsigned long
sizeof_array == 16
\* sizeof(matches_and_old_values_swath): a pointer and an unsigned long
sizeof_swath == 16
\* sizeof(old_value_and_match_info): uint8_t old_value + match_flags
sizeof_entry == 4

(* --------------------------- input sets -------------------------------- *)

\* places where malloc/realloc may put the store
Locs == {1000, 5000}

\* old_value_and_match_info values handed to add_element: a real match and
\* a continuation byte (no flags of its own)
Elems == { [old_value |-> 1, match_info |-> {1}],
           [old_value |-> 2, match_info |-> {}] }

\* what memset(…, 0, …) leaves in an entry
ZeroEntry == [old_value |-> 0, match_info |-> {}]

\* an entry of memory that was never written
Garbage == [old_value |-> 255, match_info |-> {8}]

\* upper bound on the bytes a store over the addresses 1..MaxAddr needs:
\* array header, one swath header, one entry per address, terminator
UpperBound == sizeof_array + 2 * sizeof_swath + sizeof_entry * MaxAddr

\* the max_needed_bytes a caller passes: the tight bound or a loose one
MaxNeeded == {UpperBound, 4 * UpperBound}

\* the capacity reserved by allocate: the array header and the terminator
InitialBytes == {sizeof_array + sizeof_swath}

(* ------------------------- targetmem.h --------------------------------- *)

EmptySwath == [first_byte_in_child |-> NULL, number_of_bytes |-> 0, data |-> <<>>]

\* bytes a swath takes in the store: header and its entries
swath_bytes(sw) == sizeof_swath + sizeof_entry * sw.number_of_bytes

RECURSIVE offset_of_swath(_, _)
\* byte offset of the k-th swath (1-based) from the start of the store
offset_of_swath(swaths, k) ==
    IF k <= 1 THEN sizeof_array
    ELSE offset_of_swath(swaths, k - 1) + swath_bytes(swaths[k - 1])

\* the swath a local pointer designates in the store that lives at loc,
\* 0 when the pointer designates none (a dangling pointer)
swath_index(loc, store, ptr) ==
    LET ks == {k \in 1..Len(store.swaths) :
                   loc + offset_of_swath(store.swaths, k) = ptr}
    IN IF ks = {} THEN 0 ELSE CHOOSE k \in ks : TRUE

index_of_last_element(sw) == sw.number_of_bytes - 1

remote_address_of_nth_element(sw, n) == sw.first_byte_in_child + n

remote_address_of_last_element(sw) ==
    remote_address_of_nth_element(sw, index_of_last_element(sw))

\* &swath->data[n + 1] for the swath at local address ptr
local_address_beyond_nth_element(ptr, n) ==
    ptr + sizeof_swath + sizeof_entry * (n + 1)

local_address_beyond_last_element(ptr, sw) ==
    local_address_beyond_nth_element(ptr, index_of_last_element(sw))

\* mutant: the size is doubled once, not until it fits
double_until_once(bytes_to_alloc, bytes_needed) ==
    IF bytes_to_alloc >= bytes_needed THEN bytes_to_alloc ELSE bytes_to_alloc * 2

\* mutant: the loop starts from 0 instead of arr->bytes_allocated, and
\* 0 * 2 = 0 never reaches a request
double_until_from_zero(bytes_to_alloc, bytes_needed) == 0

RECURSIVE double_until(_, _)
\* while (bytes_to_alloc < bytes_needed) bytes_to_alloc *= 2;
\* 0 stands for a loop that never ends (0 * 2 = 0)
double_until(bytes_to_alloc, bytes_needed) ==
    IF bytes_to_alloc >= bytes_needed THEN bytes_to_alloc
    ELSE IF bytes_to_alloc = 0 THEN 0
    ELSE double_until(bytes_to_alloc * 2, bytes_needed)

\* mutant: the swath pointer is left where it was
corrected_swath_stale(ptr, orig_location, new_location) == ptr

\* *swath_ptr_to_correct + ((void *)arr - (void *)orig_location)
corrected_swath(ptr, orig_location, new_location) ==
    ptr + (new_location - orig_location)

\* allocate_enough_to_reach(arr, last_byte_to_reach_plus_one, swath_ptr):
\*   loc      where arr points
\*   reach    last_byte_to_reach_plus_one
\*   ptr      *swath_ptr_to_correct, when has_ptr
\*   newloc   what realloc returns: a place of Locs, or NULL
\* The result names the returned arr, the place of the block afterwards,
\* the block, the corrected pointer and which path was taken.
allocate_enough_to_reach(loc, store, reach, ptr, has_ptr, newloc) ==
    LET bytes_needed == reach - loc
        doubled      == double_until(store.bytes_allocated, bytes_needed)
        clamp        == store.max_needed_bytes < doubled
        bytes_to_alloc == IF clamp THEN store.max_needed_bytes ELSE doubled
        same == [arr |-> loc, block_loc |-> loc, store |-> store,
                 swath |-> ptr, res |-> "fits",
                 bytes_needed |-> bytes_needed]
    IN IF bytes_needed <= store.bytes_allocated THEN same
       ELSE IF doubled = 0 THEN [same EXCEPT !.res = "hang"]
       ELSE IF clamp /\ ~(store.max_needed_bytes >= bytes_needed)
            THEN [same EXCEPT !.res = "assert"]
       ELSE IF newloc = NULL
            THEN [same EXCEPT !.arr = NULL, !.res = "nomem"]
       ELSE [arr |-> newloc, block_loc |-> newloc,
             store |-> [store EXCEPT !.bytes_allocated = bytes_to_alloc],
             swath |-> IF has_ptr THEN corrected_swath(ptr, loc, newloc) ELSE ptr,
             res |-> "grown", bytes_needed |-> bytes_needed]

\* data[i] = e for the 1-based position i of a swath's entries; memory
\* between the written entries and i was never written
write_entry(data, i, e) ==
    [j \in 1..(IF i > Len(data) THEN i ELSE Len(data)) |->
        IF j = i THEN e ELSE IF j <= Len(data) THEN data[j] ELSE Garbage]

\* mutant: the memset is one entry short
zero_fill_short(data, from, count) ==
    [j \in 1..(IF from + count - 1 > Len(data) THEN from + count - 1 ELSE Len(data)) |->
        IF j >= from /\ j < from + count - 2 THEN ZeroEntry
        ELSE IF j <= Len(data) THEN data[j] ELSE Garbage]

\* memset(&data[from - 1], 0, count * sizeof(old_value_and_match_info))
zero_fill(data, from, count) ==
    [j \in 1..(IF from + count - 1 > Len(data) THEN from + count - 1 ELSE Len(data)) |->
        IF j >= from /\ j < from + count THEN ZeroEntry
        ELSE IF j <= Len(data) THEN data[j] ELSE Garbage]

\* unsigned long arithmetic wraps; the word is taken 28 bits wide here, far
\* beyond every address and size of the model, so that a product by
\* sizeof_entry stays within the integers of the model checker
ULongModulus == 2^28

\* mutant: the distance is taken from the address behind the last element
local_idx_excess_from_end(sw, remote_addr) ==
    (remote_addr - (sw.first_byte_in_child + sw.number_of_bytes)) % ULongModulus

\* unsigned long local_idx_excess = remote_addr - remote_address_of_last_element(swath)
local_idx_excess(sw, remote_addr) ==
    (remote_addr - remote_address_of_last_element(sw)) % ULongModulus

\* unsigned long local_addr_excess = local_idx_excess * sizeof(old_value_and_match_info)
local_addr_excess(sw, remote_addr) ==
    (local_idx_excess(sw, remote_addr) * sizeof_entry) % ULongModulus

\* mutant: the entry that a new swath holds is not counted
needed_sz_header == sizeof_swath

\* size_t needed_sz = sizeof(matches_and_old_values_swath) + sizeof(old_value_and_match_info)
needed_sz == sizeof_swath + sizeof_entry

\* mutant: > for >=
starts_new_swath_strict(sw, remote_addr) == local_addr_excess(sw, remote_addr) > needed_sz

\* if (local_addr_excess >= needed_sz): it is most memory-efficient to start a new swath
starts_new_swath(sw, remote_addr) == local_addr_excess(sw, remote_addr) >= needed_sz

\* the branch add_element takes for the swath sw
branch_of(sw, remote_addr) ==
    IF sw.number_of_bytes = 0 THEN "empty"
    ELSE IF starts_new_swath(sw, remote_addr) THEN "new" ELSE "pad"

\* mutant: the padding branch does not count the new element
reach_of_short(ptr, sw, remote_addr) ==
    CASE branch_of(sw, remote_addr) = "empty" -> ptr + sizeof_swath + sizeof_entry
      [] branch_of(sw, remote_addr) = "new" ->
            local_address_beyond_last_element(ptr, sw) + sizeof_swath + sizeof_entry
      [] OTHER ->
            local_address_beyond_last_element(ptr, sw)
                + local_addr_excess(sw, remote_addr) - sizeof_entry

\* last_byte_to_reach_plus_one that add_element asks for, per branch
reach_of(ptr, sw, remote_addr) ==
    CASE branch_of(sw, remote_addr) = "empty" -> ptr + sizeof_swath + sizeof_entry
      [] branch_of(sw, remote_addr) = "new" ->
            local_address_beyond_last_element(ptr, sw) + sizeof_swath + sizeof_entry
      [] OTHER ->
            local_address_beyond_last_element(ptr, sw) + local_addr_excess(sw, remote_addr)

\* mutant: += local_idx_excess
padded_number_of_bytes_plus_one(sw, remote_addr) ==
    sw.number_of_bytes + local_idx_excess(sw, remote_addr)

\* swath->number_of_bytes += local_idx_excess - 1
padded_number_of_bytes(sw, remote_addr) ==
    sw.number_of_bytes + local_idx_excess(sw, remote_addr) - 1

\* the padding branch: zero local_addr_excess bytes beyond the last element
\* and count all of them but the last
pad_swath(sw, remote_addr) ==
    [sw EXCEPT !.data = zero_fill(sw.data, sw.number_of_bytes + 1,
                                  local_idx_excess(sw, remote_addr)),
               !.number_of_bytes = padded_number_of_bytes(sw, remote_addr)]

\* "Add me": *local_address_beyond_last_element(swath) = *new_elem;
\* ++swath->number_of_bytes
append_elem(sw, new_elem) ==
    [sw EXCEPT !.data = write_entry(sw.data, sw.number_of_bytes + 1, new_elem),
               !.number_of_bytes = sw.number_of_bytes + 1]

\* the swaths after the writes of add_element through the swath pointer
\* that designates swath k; what lay behind the written swath is overwritten
written_swaths(swaths, k, branch, remote_addr, new_elem) ==
    LET sw == swaths[k]
        upto == SubSeq(swaths, 1, k - 1)
    IN CASE branch = "empty" ->
              upto \o <<append_elem([sw EXCEPT !.first_byte_in_child = remote_addr],
                                    new_elem)>>
         [] branch = "new" ->
              upto \o <<sw, append_elem([first_byte_in_child |-> remote_addr,
                                         number_of_bytes |-> 0,
                                         data |-> <<>>], new_elem)>>
         [] OTHER ->
              upto \o <<append_elem(pad_swath(sw, remote_addr), new_elem)>>

\* mutant: the swath that was passed in is returned
returned_swath_stale(ptr, sw, branch) == ptr

\* the swath pointer add_element returns: the swath the element went to
returned_swath(ptr, sw, branch) ==
    IF branch = "new" THEN local_address_beyond_last_element(ptr, sw) ELSE ptr

\* what add_element leaves when it stops after the growth g
add_element_stop(g, branch, why) ==
    [arr |-> g.arr, block_loc |-> g.block_loc, store |-> g.store,
     swath |-> g.swath, res |-> g.res, branch |-> branch, status |-> why]

\* the writes of add_element after the growth g, through the swath pointer
\* g.swath, which designates swath k of the block (0: none)
add_element_writes(g, k, branch, remote_addr, new_elem, lands) ==
    IF g.res = "hang" THEN add_element_stop(g, branch, "hung")
    ELSE IF g.res = "assert" THEN add_element_stop(g, branch, "aborted")
    ELSE IF k = 0 \/ (g.res = "nomem" /\ ~lands) THEN
         \* a write through a dangling pointer or beyond the block
         [add_element_stop(g, branch, "crashed") EXCEPT !.store =
             IF k # 0 /\ branch = "empty"
             THEN [g.store EXCEPT !.swaths[k].first_byte_in_child = remote_addr]
             ELSE g.store]
    ELSE [arr |-> g.arr, block_loc |-> g.block_loc,
          store |-> [g.store EXCEPT !.swaths =
                       written_swaths(g.store.swaths, k, branch, remote_addr, new_elem)],
          swath |-> returned_swath(g.swath, g.store.swaths[k], branch),
          res |-> g.res, branch |-> branch, status |-> "run"]

\* add_element on the swath sw0 that ptr designates
add_element_on(sw0, loc, store, ptr, remote_addr, new_elem, newloc, lands) ==
    LET g == allocate_enough_to_reach(loc, store, reach_of(ptr, sw0, remote_addr),
                                      ptr, TRUE, newloc)
    IN add_element_writes(g, swath_index(g.block_loc, g.store, g.swath),
                          branch_of(sw0, remote_addr), remote_addr, new_elem, lands)

\* add_element(&arr, swath, remote_addr, new_elem), with arr at loc:
\*   newloc  what realloc returns if it is called (NULL: out of memory)
\*   lands   whether a write beyond the allocated block goes through
\*           unnoticed (TRUE) or ends the process (FALSE)
\* add_element does not test what allocate_enough_to_reach returns: after a
\* failed growth *arr is NULL and the writes go through the old pointer.
add_element(loc, store, ptr, remote_addr, new_elem, newloc, lands) ==
    add_element_on(store.swaths[swath_index(loc, store, ptr)], loc, store, ptr,
                   remote_addr, new_elem, newloc, lands)

\* allocate(initial_bytes, max_needed_bytes): reserves capacity and writes
\* a terminator
allocate(initial_bytes, max_needed_bytes) ==
    [bytes_allocated |-> initial_bytes, max_needed_bytes |-> max_needed_bytes,
     swaths |-> <<EmptySwath>>]

RECURSIVE BuildStore(_, _, _, _), BuildNext(_, _, _)
\* a scan pass feeding its matches to the store at loc:
\* swath = add_element(&arr, swath, item.addr, &item.elem) for each item
BuildStore(loc, st, ptr, items) ==
    IF items = <<>> THEN [store |-> st, swath |-> ptr]
    ELSE BuildNext(loc, add_element(loc, st, ptr, Head(items).addr, Head(items).elem,
                                    loc, TRUE), Tail(items))

\* the scan pass goes on with the store and the swath add_element returned
BuildNext(loc, r, items) == BuildStore(loc, r.store, r.swath, items)

(* ----------------------- the store as a state machine ------------------ *)

VARIABLES
    arr,        \* the caller's store pointer (vars->matches), NULL or a place
    block_loc,  \* where the store's block lives on the heap, NULL before allocate
    store,      \* the block: bytes_allocated, max_needed_bytes, swaths
    swath,      \* the caller's swath cursor (a local address)
    status,     \* "init", "run", "crashed", "aborted", "hung"
    added,      \* the (remote_addr, elem) pairs handed to add_element so far
    last        \* the last call: its arguments, the state before it, its path

storeVars == <<arr, block_loc, store, swath, status, added, last>>

\* the session of handlers.c (globals_t) and the target it works on
VARIABLES
    target,       \* vars->target, 0 when no pid is set
    matches,      \* vars->matches: NoStore for NULL, or the store
    num_matches,  \* vars->num_matches
    regions,      \* vars->regions, the list of regions in list order
    scan_data_type, \* vars->options.scan_data_type
    mem,          \* the bytes of the target's memory
    cmd,          \* the last command: its arguments, the state before, its outcome
    job           \* the set or watch command in progress: where it stands in
                  \* its loop, and what it has done so far

sessionVars == <<target, matches, num_matches, regions, scan_data_type, mem, cmd, job>>

vars == <<storeVars, sessionVars>>

\* stands for a NULL store pointer
NoStore == [bytes_allocated |-> 0, max_needed_bytes |-> 0, swaths |-> <<>>]

NoCall == [op |-> "none"]

NoCmd == [handler |-> "none"]

\* no set or watch command was given yet
NoJob == [handler |-> "none", pc |-> "idle", interrupted |-> FALSE]

\* the addresses of the target that hold memory
MemAddrs == {1, 2, 8}

\* the values a byte of the target takes
Bytes == {0, 1}

\* the session before the first command: sm_globals as initialised
InitSession ==
    /\ target = 0
    /\ matches = NoStore
    /\ num_matches = 0
    /\ regions = <<>>
    /\ scan_data_type = "ANYNUMBER"
    /\ mem = [a \in MemAddrs |-> 0]
    /\ cmd = NoCmd
    /\ job = NoJob

InitStore ==
    /\ arr = NULL
    /\ block_loc = NULL
    /\ store = NoStore
    /\ swath = NULL
    /\ status = "init"
    /\ added = <<>>
    /\ last = NoCall
    /\ InitSession

\* the scan driver reserves the store and points its cursor at the first swath
Allocate ==
    /\ status = "init"
    /\ \E initial_bytes \in InitialBytes, max_needed_bytes \in MaxNeeded, loc \in Locs :
          /\ arr' = loc
          /\ block_loc' = loc
          /\ store' = allocate(initial_bytes, max_needed_bytes)
          /\ swath' = loc + sizeof_array
          /\ status' = "run"
          /\ last' = [op |-> "allocate"]
    /\ UNCHANGED added
    /\ UNCHANGED sessionVars

\* the swath the cursor designates
CurrentSwath == store.swaths[swath_index(block_loc, store, swath)]

\* the precondition of add_element: the swath is empty or remote_addr lies
\* beyond its last remote address
AddPre(remote_addr) ==
    \/ CurrentSwath.number_of_bytes = 0
    \/ remote_addr > remote_address_of_last_element(CurrentSwath)

\* the caller takes the result r of add_element(&arr, swath, remote_addr, &elem)
Added(r, remote_addr, elem) ==
    /\ arr' = r.arr
    /\ block_loc' = r.block_loc
    /\ store' = r.store
    /\ swath' = r.swath
    /\ status' = r.status
    /\ added' = IF r.status = "run"
                THEN Append(added, [addr |-> remote_addr, elem |-> elem])
                ELSE added
    /\ last' = [op |-> "add", remote_addr |-> remote_addr, elem |-> elem,
                branch |-> r.branch, res |-> r.res,
                arr |-> arr, store |-> store, swath |-> swath]

\* swath = add_element(&arr, swath, remote_addr, &elem)
AddElement ==
    /\ status = "run"
    /\ arr # NULL
    /\ Len(added) < MaxAdds
    /\ \E remote_addr \in 1..MaxAddr, elem \in Elems,
          newloc \in Locs \cup {NULL}, lands \in BOOLEAN :
          /\ AddPre(remote_addr)
          /\ Added(add_element(arr, store, swath, remote_addr, elem, newloc, lands),
                   remote_addr, elem)
    /\ UNCHANGED sessionVars

NextStore == Allocate \/ AddElement

SpecStore == InitStore /\ [][NextStore]_vars

(* --------------------- properties of the store ------------------------- *)

\* the i-th entry (1-based) of a swath as the memory holds it
EntryAt(sw, i) == IF i >= 1 /\ i <= Len(sw.data) THEN sw.data[i] ELSE Garbage

RECURSIVE Enumerate(_)
\* the entries of the store swath by swath and index by index, each with
\* its remote address first_byte_in_child + index
Enumerate(swaths) ==
    IF swaths = <<>> THEN <<>>
    ELSE LET sw == swaths[Len(swaths)]
         IN Enumerate(SubSeq(swaths, 1, Len(swaths) - 1)) \o
            [i \in 1..sw.number_of_bytes |->
                [addr |-> sw.first_byte_in_child + i - 1, elem |-> EntryAt(sw, i)]]

AddedAddrs == {added[i].addr : i \in 1..Len(added)}

IsAdded(e) == e.addr \in AddedAddrs

\* the byte offset behind the last entry of the last swath
EndOfSwaths(st) == offset_of_swath(st.swaths, Len(st.swaths) + 1)

\* the state before the last call, for a call of add_element
PreSwath == last.store.swaths[swath_index(last.arr, last.store, last.swath)]

LastAdd == last.op = "add" /\ status = "run"

\* the last add_element went to the swath it was given
SameSwath == Len(store.swaths) = Len(last.store.swaths)

\* the last add_element started a swath behind the one it was given
NewSwathStarted == Len(store.swaths) = Len(last.store.swaths) + 1

\* the swath the returned pointer designates
ReturnedIndex == swath_index(block_loc, store, swath)

\* C1: after add_element calls with strictly ascending addresses on an
\* empty store, the entries enumerated swath by swath and index by index
\* have strictly ascending remote addresses, the swaths are ordered by
\* ascending first_byte_in_child with disjoint ranges, and the added
\* entries are met in the order they were added.
C1_Ascending ==
    LET es == Enumerate(store.swaths) IN
    /\ \A i \in 1..(Len(es) - 1) : es[i].addr < es[i + 1].addr
    /\ \A k \in 1..(Len(store.swaths) - 1) :
          /\ store.swaths[k].first_byte_in_child < store.swaths[k + 1].first_byte_in_child
          /\ store.swaths[k].first_byte_in_child + store.swaths[k].number_of_bytes
                <= store.swaths[k + 1].first_byte_in_child
    /\ SelectSeq(es, IsAdded) = added

\* two swaths that both hold padding, four elements added
C1_Witness ==
    /\ Len(store.swaths) = 2
    /\ Len(added) = 4
    /\ \A k \in 1..2 : store.swaths[k].number_of_bytes >= 3

\* C2: when growth succeeds, the swath add_element returns is the last
\* swath of the store, has number_of_bytes >= 1, its last entry is elem
\* and the remote address of that entry is remote_addr.
C2_Returned ==
    (LastAdd /\ last.res \in {"fits", "grown"}) =>
        /\ ReturnedIndex # 0
        /\ ReturnedIndex = Len(store.swaths)
        /\ LET sw == store.swaths[Len(store.swaths)] IN
              /\ sw.number_of_bytes >= 1
              /\ EntryAt(sw, sw.number_of_bytes) = last.elem
              /\ remote_address_of_last_element(sw) = last.remote_addr

\* a new swath was started by a call that had to grow the store
C2_Witness ==
    /\ LastAdd /\ last.res = "grown" /\ NewSwathStarted
    /\ ReturnedIndex = Len(store.swaths)

\* C3 as claimed: with gap = remote_addr - (F + N), a new swath is started
\* exactly when gap * sizeof(entry) >= sizeof(swath header) + sizeof(entry).
C3_AsClaimed ==
    (LastAdd /\ PreSwath.number_of_bytes > 0) =>
        (NewSwathStarted <=>
            (last.remote_addr - (PreSwath.first_byte_in_child + PreSwath.number_of_bytes))
                * sizeof_entry >= sizeof_swath + sizeof_entry)

\* C3 amended: with gap = remote_addr - (F + N - 1), the distance from the
\* last remote address of the swath, a new swath is started exactly when
\* gap * sizeof(entry) >= sizeof(swath header) + sizeof(entry); otherwise
\* the current swath is padded.
C3_Branch ==
    (LastAdd /\ PreSwath.number_of_bytes > 0) =>
        LET gap == last.remote_addr
                     - (PreSwath.first_byte_in_child + PreSwath.number_of_bytes - 1)
        IN /\ NewSwathStarted <=> gap * sizeof_entry >= sizeof_swath + sizeof_entry
           /\ SameSwath <=> ~(gap * sizeof_entry >= sizeof_swath + sizeof_entry)

\* the address lies four behind the end of the swath, five behind its last
\* element: the claimed rule pads, the code starts a swath
C3_Witness ==
    /\ LastAdd /\ PreSwath.number_of_bytes > 0
    /\ last.remote_addr = PreSwath.first_byte_in_child + PreSwath.number_of_bytes + 4
    /\ NewSwathStarted

\* the threshold in entries: swath header plus one entry
ThresholdEntries == (sizeof_swath + sizeof_entry) \div sizeof_entry

\* C4 as claimed: gap = threshold pads, gap = threshold + 1 starts a swath
\* (gap = remote_addr - (F + N)).
C4_AsClaimed ==
    (LastAdd /\ PreSwath.number_of_bytes > 0) =>
        LET gap == last.remote_addr
                     - (PreSwath.first_byte_in_child + PreSwath.number_of_bytes)
        IN /\ gap = ThresholdEntries => SameSwath
           /\ gap = ThresholdEntries + 1 => NewSwathStarted

\* C4 amended: with gap the distance from the last remote address of the
\* swath, gap = threshold starts a new swath and gap = threshold - 1 pads.
C4_Boundary ==
    (LastAdd /\ PreSwath.number_of_bytes > 0) =>
        LET gap == last.remote_addr - remote_address_of_last_element(PreSwath)
        IN /\ gap = ThresholdEntries => NewSwathStarted
           /\ gap = ThresholdEntries - 1 =>
                 /\ SameSwath
                 /\ store.swaths[Len(store.swaths)].number_of_bytes
                       = PreSwath.number_of_bytes + gap

\* a call at the boundary: the distance is exactly the threshold
C4_Witness ==
    /\ LastAdd /\ PreSwath.number_of_bytes > 0
    /\ last.remote_addr - remote_address_of_last_element(PreSwath) = ThresholdEntries
    /\ NewSwathStarted

\* C5 as claimed: in the padding branch, with gap = remote_addr - (F + N),
\* gap - 1 zero entries are inserted and number_of_bytes grows by gap.
C5_AsClaimed ==
    (LastAdd /\ PreSwath.number_of_bytes > 0 /\ SameSwath) =>
        LET gap == last.remote_addr
                     - (PreSwath.first_byte_in_child + PreSwath.number_of_bytes)
            sw  == store.swaths[Len(store.swaths)]
            n   == PreSwath.number_of_bytes
        IN /\ sw.number_of_bytes = n + gap
           /\ \A i \in (n + 1)..(n + gap - 1) : EntryAt(sw, i) = ZeroEntry
           /\ EntryAt(sw, n + gap) = last.elem

\* C5 amended: in the padding branch, with gap = remote_addr - (F + N - 1),
\* exactly gap - 1 entries with all-zero flags and old_value 0 lie between
\* the previous last entry and the new entry, number_of_bytes grows by gap
\* and the entries that were there are unchanged.
C5_Padding ==
    (LastAdd /\ PreSwath.number_of_bytes > 0 /\ SameSwath) =>
        LET gap == last.remote_addr
                     - (PreSwath.first_byte_in_child + PreSwath.number_of_bytes - 1)
            n   == PreSwath.number_of_bytes
            sw  == store.swaths[Len(store.swaths)]
        IN /\ sw.number_of_bytes = n + gap
           /\ sw.first_byte_in_child = PreSwath.first_byte_in_child
           /\ \A i \in 1..n : EntryAt(sw, i) = EntryAt(PreSwath, i)
           /\ \A i \in (n + 1)..(n + gap - 1) : EntryAt(sw, i) = ZeroEntry
           /\ EntryAt(sw, n + gap) = last.elem

\* a padding call that inserts three zero entries
C5_Witness ==
    /\ LastAdd /\ PreSwath.number_of_bytes > 0 /\ SameSwath
    /\ last.remote_addr - remote_address_of_last_element(PreSwath) = 4
    /\ store.swaths[Len(store.swaths)].number_of_bytes = PreSwath.number_of_bytes + 4

C9_AsClaimed ==
    (last.op = "add" /\ last.res = "nomem") =>
        /\ arr = last.arr
        /\ store = last.store

(* ------------- allocate_enough_to_reach called on its own -------------- *)

\* the largest request, as a multiple of bytes_allocated
MaxFactor == 5

\* a real match with old value 1
Match1 == [old_value |-> 1, match_info |-> {1}]

\* the elements of the stores the growth is tried on
SampleAdds ==
    { <<>>,
      <<[addr |-> 2, elem |-> Match1]>>,
      <<[addr |-> 2, elem |-> Match1], [addr |-> 4, elem |-> Match1]>>,
      <<[addr |-> 2, elem |-> Match1], [addr |-> 9, elem |-> Match1]>> }

\* the local addresses of the swaths of the store at loc
SwathPointers(loc, st) ==
    {loc + offset_of_swath(st.swaths, k) : k \in 1..Len(st.swaths)}

\* the high-water marks asked for, as offsets from the start of the store
GrowRequests(st) ==
    {st.bytes_allocated * f + d : f \in 1..MaxFactor, d \in {-1, 0, 1}}

\* a store as allocate and add_element leave it, and a caller that holds a
\* cursor to one of its swaths or none
InitGrow ==
    /\ \E loc \in Locs, max_needed_bytes \in MaxNeeded, items \in SampleAdds :
          LET b == BuildStore(loc, allocate(sizeof_array + sizeof_swath, max_needed_bytes),
                              loc + sizeof_array, items)
          IN /\ arr = loc
             /\ block_loc = loc
             /\ store = b.store
             /\ swath \in SwathPointers(loc, b.store) \cup {NULL}
    /\ status = "run"
    /\ added = <<>>
    /\ last = NoCall
    /\ InitSession

\* the caller takes the result g of allocate_enough_to_reach
Grown(g, request) ==
    /\ arr' = g.arr
    /\ block_loc' = g.block_loc
    /\ store' = g.store
    /\ swath' = g.swath
    /\ status' = CASE g.res = "assert" -> "aborted"
                   [] g.res = "hang" -> "hung"
                   [] OTHER -> "run"
    /\ last' = [op |-> "reach", request |-> request, res |-> g.res,
                arr |-> arr, store |-> store, swath |-> swath]

\* arr = allocate_enough_to_reach(arr, (void *)arr + request, &swath or NULL)
Grow ==
    /\ status = "run"
    /\ arr # NULL
    /\ \E request \in GrowRequests(store), newloc \in Locs \cup {NULL} :
          Grown(allocate_enough_to_reach(arr, store, arr + request, swath,
                                         swath # NULL, newloc), request)
    /\ UNCHANGED added
    /\ UNCHANGED sessionVars

NextGrow == Grow

SpecGrow == InitGrow /\ [][NextGrow]_vars

RECURSIVE Pow2(_)
Pow2(k) == IF k = 0 THEN 1 ELSE 2 * Pow2(k - 1)

Min(a, b) == IF a <= b THEN a ELSE b

\* C6: allocate_enough_to_reach leaves the store unchanged when the
\* requested end offset is <= bytes_allocated; otherwise, on success, the
\* new bytes_allocated is min(bytes_allocated * 2^k, max_needed_bytes) for
\* the smallest k with bytes_allocated * 2^k >= bytes needed, so it never
\* decreases and never exceeds max_needed_bytes.
C6_Growth ==
    last.op = "reach" =>
        LET old == last.store.bytes_allocated IN
        /\ last.request <= old =>
              /\ last.res = "fits"
              /\ store = last.store
              /\ arr = last.arr
        /\ (last.request > old /\ last.res = "grown") =>
              /\ \E k \in 1..(MaxFactor + 1) :
                    /\ old * Pow2(k) >= last.request
                    /\ old * Pow2(k - 1) < last.request
                    /\ store.bytes_allocated = Min(old * Pow2(k), store.max_needed_bytes)
              /\ store.bytes_allocated >= old
              /\ store.bytes_allocated >= last.request
              /\ store.bytes_allocated <= store.max_needed_bytes
              /\ store.max_needed_bytes = last.store.max_needed_bytes
              /\ store.swaths = last.store.swaths

\* a growth that needs three doublings
C6_Witness ==
    /\ last.op = "reach" /\ last.res = "grown"
    /\ last.request > 4 * last.store.bytes_allocated
    /\ store.bytes_allocated = 8 * last.store.bytes_allocated

\* C8: when growth moves the store, the swath cursor passed by reference
\* moves by the same byte delta: its offset from the store base is the same
\* before and after and it designates the same swath; when no cursor is
\* passed or no growth is needed nothing else changes.
C8_Cursor ==
    last.op = "reach" =>
        /\ (last.res = "grown" /\ last.swath # NULL) =>
              /\ swath - arr = last.swath - last.arr
              /\ swath_index(block_loc, store, swath) # 0
              /\ swath_index(block_loc, store, swath)
                    = swath_index(last.arr, last.store, last.swath)
        /\ (last.res = "grown" /\ last.swath = NULL) => swath = NULL
        /\ last.res = "grown" =>
              /\ store.swaths = last.store.swaths
              /\ store.max_needed_bytes = last.store.max_needed_bytes
        /\ last.res = "fits" =>
              /\ swath = last.swath
              /\ arr = last.arr
              /\ store = last.store

\* the store moved while the caller held a cursor to its second swath
C8_Witness ==
    /\ last.op = "reach" /\ last.res = "grown"
    /\ arr # last.arr
    /\ last.swath # NULL
    /\ swath_index(block_loc, store, swath) = 2

(* ------------------------- the scan driver ----------------------------- *)

\* the pids a user may name
Pids == {1, 2}

\* read_maps(pid): the regions of the target, ascending
Maps(pid) ==
    IF pid = 1
    THEN << [id |-> 0, start |-> 1, size |-> 2], [id |-> 1, start |-> 8, size |-> 1] >>
    ELSE << [id |-> 0, start |-> 2, size |-> 1] >>

\* the values a user may give
UserValues == {[lo |-> lo, hi |-> hi] : lo \in Bytes, hi \in Bytes}

\* zero_uservalue(&val)
ZeroUserValue == [lo |-> 0, hi |-> 0]

FirstScanTypes == {"MATCHANY", "MATCHEQUALTO", "MATCHNOTEQUALTO", "MATCHGREATERTHAN",
                   "MATCHLESSTHAN", "MATCHRANGE"}

PriorScanTypes == {"MATCHCHANGED", "MATCHNOTCHANGED", "MATCHINCREASED",
                   "MATCHDECREASED", "MATCHINCREASEDBY", "MATCHDECREASEDBY"}

\* the scan routine of a match type on one byte
Evaluate(m, old, new, uv) ==
    CASE m = "MATCHANY"         -> TRUE
      [] m = "MATCHEQUALTO"     -> new = uv.lo
      [] m = "MATCHNOTEQUALTO"  -> new # uv.lo
      [] m = "MATCHGREATERTHAN" -> new > uv.lo
      [] m = "MATCHLESSTHAN"    -> new < uv.lo
      [] m = "MATCHRANGE"       -> uv.lo <= new /\ new <= uv.hi
      [] m = "MATCHCHANGED"     -> new # old
      [] m = "MATCHNOTCHANGED"  -> new = old
      [] m = "MATCHINCREASED"   -> new > old
      [] m = "MATCHDECREASED"   -> new < old
      [] m = "MATCHINCREASEDBY" -> new - old = uv.lo
      [] m = "MATCHDECREASEDBY" -> old - new = uv.lo
      [] OTHER -> FALSE

RECURSIVE RegionAddrs(_)
\* the addresses of the regions, region by region
RegionAddrs(rs) ==
    IF rs = <<>> THEN <<>>
    ELSE [i \in 1..Head(rs).size |-> Head(rs).start + i - 1] \o RegionAddrs(Tail(rs))

RECURSIVE TotalSize(_)
TotalSize(rs) == IF rs = <<>> THEN 0 ELSE Head(rs).size + TotalSize(Tail(rs))

\* the bound on the store the first scan passes to allocate: a header per
\* region, an entry per scanned byte, the terminator
MaxNeededFor(rs) ==
    sizeof_array + (Len(rs) + 1) * sizeof_swath + sizeof_entry * TotalSize(rs)

\* where the scan driver's store lives (its place plays no role here)
ScanLoc == CHOOSE loc \in Locs : TRUE

\* the store with the terminator written behind swath k
terminated(st, k) == [st EXCEPT !.swaths = SubSeq(st.swaths, 1, k) \o <<EmptySwath>>]

\* null_terminate(array, swath) for the swath sw, the k-th, that ptr designates
null_terminate_on(sw, k, loc, st, ptr) ==
    IF sw.number_of_bytes = 0 THEN st
    ELSE terminated(allocate_enough_to_reach(loc, st,
                        local_address_beyond_last_element(ptr, sw) + sizeof_swath,
                        ptr, TRUE, loc).store, k)

\* the k-th swath of st
swath_k(k, loc, st, ptr) == null_terminate_on(st.swaths[k], k, loc, st, ptr)

\* null_terminate(array, swath): a terminator swath follows the last swath
null_terminate(loc, st, ptr) == swath_k(swath_index(loc, st, ptr), loc, st, ptr)

\* entries with max_width_in_bytes > 0 among the enumerated entries es
CountIn(es) == Cardinality({i \in 1..Len(es) : es[i].elem.match_info # {}})

\* entries with max_width_in_bytes > 0
CountMatches(st) == CountIn(Enumerate(st.swaths))

\* the scan pass b ends: null_terminate(vars->matches, writing_swath)
Terminate(b) == null_terminate(ScanLoc, b.store, b.swath)

\* the store a scan pass leaves for the items it keeps, written from the
\* first swath of st on
ScanInto(st, items) ==
    Terminate(BuildStore(ScanLoc, [st EXCEPT !.swaths = <<EmptySwath>>],
                         ScanLoc + sizeof_array, items))

\* what a scan driver returns when it fails before it touched the store
ScanFailed(s) == [ok |-> FALSE, matches |-> s.matches, num_matches |-> s.num_matches]

\* what a scan driver returns for the store st it built
ScanDone(st) == [ok |-> TRUE, matches |-> st, num_matches |-> CountMatches(st)]

\* the bytes at the addresses hits as new matches
FirstItems(memory, hits) ==
    [i \in 1..Len(hits) |->
        [addr |-> hits[i],
         elem |-> [old_value |-> memory[hits[i]], match_info |-> {1}]]]

\* the entries kept as matches with the value the target holds now
NextItems(memory, kept) ==
    [i \in 1..Len(kept) |->
        [addr |-> kept[i].addr,
         elem |-> [old_value |-> memory[kept[i].addr],
                   match_info |-> kept[i].elem.match_info]]]

\* sm_searchregions(vars, m, &uv): the first scan, a walk over the regions.
\* io_ok: attach and the reads succeed.
sm_searchregions(s, memory, m, uv, io_ok) ==
    IF s.target = 0 \/ ~io_ok THEN ScanFailed(s)
    ELSE LET Hit(a) == Evaluate(m, 0, memory[a], uv)
         IN ScanDone(ScanInto(allocate(sizeof_array + sizeof_swath,
                                       MaxNeededFor(s.regions)),
                              FirstItems(memory, SelectSeq(RegionAddrs(s.regions), Hit))))

\* sm_checkmatches(vars, m, &uv): the next scan, narrowing the store in place
sm_checkmatches(s, memory, m, uv, io_ok) ==
    IF s.target = 0 \/ ~io_ok THEN ScanFailed(s)
    ELSE LET Keep(e) == /\ e.elem.match_info # {}
                        /\ Evaluate(m, e.elem.old_value, memory[e.addr], uv)
         IN ScanDone(ScanInto(s.matches,
                              NextItems(memory, SelectSeq(Enumerate(s.matches.swaths), Keep))))

(* ------------------ navigation and deletion by region ----------------- *)

\* the places of the entries of swath k, index by index (0-based as in the code)
PlacesOf(sw, k) ==
    [i \in 1..sw.number_of_bytes |->
        [swath |-> k, index |-> i - 1, flags |-> EntryAt(sw, i).match_info,
         addr |-> remote_address_of_nth_element(sw, i - 1)]]

RECURSIVE Places(_, _)
\* the places of the entries of the swaths from the k-th on, in walking order
Places(swaths, k) ==
    IF k > Len(swaths) THEN <<>>
    ELSE PlacesOf(swaths[k], k) \o Places(swaths, k + 1)

\* stands for the location {NULL, 0} that nth_match returns for "none"
NoLocation == [swath |-> 0, index |-> 0, flags |-> {}, addr |-> 0]

IsMatch(p) == p.flags # {}

\* the n-th place (0-indexed) among the places ps
Nth(ps, n) == IF n < Len(ps) THEN ps[n + 1] ELSE NoLocation

\* nth_match(matches, n): the n-th entry (0-indexed) with max_width_in_bytes > 0
nth_match(st, n) == Nth(SelectSeq(Places(st.swaths, 1), IsMatch), n)

\* zero_match_flags applied to every entry of the swath of loc
zero_match_flags_swath(st, loc) ==
    [st EXCEPT !.swaths[loc.swath].data =
        [i \in 1..Len(@) |-> [@[i] EXCEPT !.match_info = {}]]]

\* zero_match_flags(&loc.swath->data[loc.index].match_info)
zero_match_flags(st, loc) ==
    [st EXCEPT !.swaths[loc.swath].data[loc.index + 1].match_info = {}]

\* address a lies inside the region r
InRegion(a, r) == r.start <= a /\ a < r.start + r.size

\* the entry at address a is on the wrong side of region r
WrongSide(a, r, keep_inside) ==
    IF keep_inside THEN ~InRegion(a, r) ELSE InRegion(a, r)

\* the swath sw after the sweep
SweptSwath(sw, r, keep_inside) ==
    [sw EXCEPT !.data =
        [i \in 1..Len(sw.data) |->
            IF WrongSide(sw.first_byte_in_child + i - 1, r, keep_inside)
            THEN [sw.data[i] EXCEPT !.match_info = {}]
            ELSE sw.data[i]]]

\* the store and the count the sweep leaves
Swept(st) == [matches |-> st, num_matches |-> CountMatches(st)]

\* delete_by_region(matches, &num_matches, region, keep_inside): clears the
\* flags of the entries inside (keep_inside false) or outside (true) region
delete_by_region(st, r, keep_inside) ==
    Swept([st EXCEPT !.swaths =
              [k \in 1..Len(st.swaths) |-> SweptSwath(st.swaths[k], r, keep_inside)]])

(* --------------------------- handlers.c -------------------------------- *)

\* the session as a record
Session == [target |-> target, matches |-> matches, num_matches |-> num_matches,
            regions |-> regions, scan_data_type |-> scan_data_type]

\* what a handler leaves: its return value, the scan driver it called with
\* which match type, and the session
Outcome(s, ret, driver, m) ==
    [ret |-> ret, driver |-> driver, m |-> m, target |-> s.target,
     matches |-> s.matches, num_matches |-> s.num_matches, regions |-> s.regions,
     scan_data_type |-> s.scan_data_type, crashed |-> FALSE]

\* the handler dereferences a null pointer: the process ends in the session s
Crash(s) == [Outcome(s, FALSE, "none", "none") EXCEPT !.crashed = TRUE]

\* handler__reset that keeps the pid whose maps it could not read
handler__reset_named(s, maps_ok) ==
    LET s1 == IF s.matches # NoStore
              THEN [s EXCEPT !.matches = NoStore, !.num_matches = 0]
              ELSE s
        s2 == [s1 EXCEPT !.regions = <<>>]
    IN IF s2.target # 0 /\ ~maps_ok
       THEN Outcome(s2, FALSE, "none", "none")
       ELSE Outcome([s2 EXCEPT !.regions = IF s2.target # 0 THEN Maps(s2.target) ELSE <<>>],
                    TRUE, "none", "none")

\* handler__reset that keeps the match store
handler__reset_kept(s, maps_ok) ==
    LET s2 == [s EXCEPT !.regions = <<>>]
    IN IF s2.target # 0 /\ ~maps_ok
       THEN Outcome([s2 EXCEPT !.target = 0], FALSE, "none", "none")
       ELSE Outcome([s2 EXCEPT !.regions = IF s2.target # 0 THEN Maps(s2.target) ELSE <<>>],
                    TRUE, "none", "none")

\* handler__reset; maps_ok: sm_readmaps succeeds.  l_init is taken to succeed.
handler__reset(s, maps_ok) ==
    LET s1 == IF s.matches # NoStore
              THEN [s EXCEPT !.matches = NoStore, !.num_matches = 0]
              ELSE s
        s2 == [s1 EXCEPT !.regions = <<>>]
    IN IF s2.target # 0 /\ ~maps_ok
       THEN Outcome([s2 EXCEPT !.target = 0], FALSE, "none", "none")
       ELSE Outcome([s2 EXCEPT !.regions = IF s2.target # 0 THEN Maps(s2.target) ELSE <<>>],
                    TRUE, "none", "none")

\* handler__pid; pid_arg is what strtoul makes of argv[1] (0: no valid pid)
handler__pid(s, argc, pid_arg, maps_ok) ==
    IF argc = 2
    THEN IF pid_arg = 0
         THEN Outcome([s EXCEPT !.target = 0], FALSE, "none", "none")
         ELSE handler__reset([s EXCEPT !.target = pid_arg], maps_ok)
    ELSE IF s.target # 0 THEN Outcome(s, TRUE, "none", "none")
    ELSE Outcome(s, FALSE, "none", "none")

\* the outcome of a handler that ends with a call of the scan driver
Scanned(s, r, driver, m) ==
    Outcome([s EXCEPT !.matches = r.matches, !.num_matches = r.num_matches],
            r.ok, driver, m)

\* handler__snapshot
handler__snapshot(s, memory, io_ok) ==
    IF s.target = 0 THEN Outcome(s, FALSE, "none", "none")
    ELSE LET s1 == IF s.matches # NoStore
                   THEN [s EXCEPT !.matches = NoStore, !.num_matches = 0]
                   ELSE s
         IN Scanned(s1, sm_searchregions(s1, memory, "MATCHANY", ZeroUserValue, io_ok),
                    "sm_searchregions", "MATCHANY")

\* mutant: the count of matches decides between the two scans
has_matches_by_count(s) == s.num_matches # 0

\* if (vars->matches): the session holds a match store
has_matches(s) == s.matches # NoStore

DecincCommands == {"=", "!=", "<", ">", "+", "-"}

\* mutant: `+` and `-` with an operand resolve as they do without one
decinc_match_type_plain(argv0, argc) ==
    CASE argv0 = "="  -> IF argc = 1 THEN "MATCHNOTCHANGED" ELSE "MATCHEQUALTO"
      [] argv0 = "!=" -> IF argc = 1 THEN "MATCHCHANGED" ELSE "MATCHNOTEQUALTO"
      [] argv0 = "<"  -> IF argc = 1 THEN "MATCHDECREASED" ELSE "MATCHLESSTHAN"
      [] argv0 = ">"  -> IF argc = 1 THEN "MATCHINCREASED" ELSE "MATCHGREATERTHAN"
      [] argv0 = "+"  -> "MATCHINCREASED"
      [] argv0 = "-"  -> "MATCHDECREASED"
      [] OTHER -> "unrecognized"

\* the match type handler__decinc resolves argv[0] and argc to
decinc_match_type(argv0, argc) ==
    CASE argv0 = "="  -> IF argc = 1 THEN "MATCHNOTCHANGED" ELSE "MATCHEQUALTO"
      [] argv0 = "!=" -> IF argc = 1 THEN "MATCHCHANGED" ELSE "MATCHNOTEQUALTO"
      [] argv0 = "<"  -> IF argc = 1 THEN "MATCHDECREASED" ELSE "MATCHLESSTHAN"
      [] argv0 = ">"  -> IF argc = 1 THEN "MATCHINCREASED" ELSE "MATCHGREATERTHAN"
      [] argv0 = "+"  -> IF argc = 1 THEN "MATCHINCREASED" ELSE "MATCHINCREASEDBY"
      [] argv0 = "-"  -> IF argc = 1 THEN "MATCHDECREASED" ELSE "MATCHDECREASEDBY"
      [] OTHER -> "unrecognized"

\* mutant: IncreasedBy and DecreasedBy are let through to the first scan
needs_prior_scan_short(m) ==
    m \in {"MATCHNOTCHANGED", "MATCHCHANGED", "MATCHDECREASED", "MATCHINCREASED"}

\* the match types handler__decinc refuses when there are no matches
needs_prior_scan(m) ==
    m \in {"MATCHNOTCHANGED", "MATCHCHANGED", "MATCHDECREASED", "MATCHINCREASED",
           "MATCHDECREASEDBY", "MATCHINCREASEDBY"}

\* handler__decinc; parse_ok: parse_uservalue_number accepts argv[1], as uv
handler__decinc(s, memory, argv0, argc, parse_ok, uv, io_ok) ==
    LET val == IF argc = 1 THEN ZeroUserValue ELSE uv
        m   == decinc_match_type(argv0, argc)
    IN IF argc > 2 THEN Outcome(s, FALSE, "none", "none")
       ELSE IF argc = 2 /\ ~parse_ok THEN Outcome(s, FALSE, "none", "none")
       ELSE IF m = "unrecognized" THEN Outcome(s, FALSE, "none", "none")
       ELSE IF has_matches(s)
            THEN Scanned(s, sm_checkmatches(s, memory, m, val, io_ok),
                         "sm_checkmatches", m)
       ELSE IF needs_prior_scan(m) THEN Outcome(s, FALSE, "none", m)
       ELSE Scanned(s, sm_searchregions(s, memory, m, val, io_ok),
                    "sm_searchregions", m)

\* the scan data types: ANYNUMBER stands for the nine numeric types, which
\* the handlers treat alike
DataTypes == {"ANYNUMBER", "BYTEARRAY", "STRING"}

\* handler__default; kind tells what the command line parses to under the
\* scan data type: "number", "range" (lo..hi), "bytearray" or "bad"
handler__default(s, memory, argc, kind, uv, io_ok) ==
    LET m == IF kind = "range" THEN "MATCHRANGE" ELSE "MATCHEQUALTO"
    IN IF s.scan_data_type = "ANYNUMBER" /\ argc # 1
       THEN Outcome(s, FALSE, "none", "none")
       ELSE IF s.scan_data_type = "STRING" THEN Outcome(s, FALSE, "none", "none")
       ELSE IF kind = "bad" THEN Outcome(s, FALSE, "none", "none")
       ELSE IF s.target = 0 THEN Outcome(s, FALSE, "none", m)
       ELSE IF has_matches(s)
            THEN Scanned(s, sm_checkmatches(s, memory, m, uv, io_ok),
                         "sm_checkmatches", m)
       ELSE Scanned(s, sm_searchregions(s, memory, m, uv, io_ok),
                    "sm_searchregions", m)

\* mutant: update walks the regions again
handler__update_rescan(s, memory, io_ok) ==
    IF has_matches(s)
    THEN Scanned(s, sm_searchregions(s, memory, "MATCHANY", ZeroUserValue, io_ok),
                 "sm_searchregions", "MATCHANY")
    ELSE Outcome(s, FALSE, "none", "none")

\* handler__update
handler__update(s, memory, io_ok) ==
    IF has_matches(s)
    THEN Scanned(s, sm_checkmatches(s, memory, "MATCHANY", ZeroUserValue, io_ok),
                 "sm_checkmatches", "MATCHANY")
    ELSE Outcome(s, FALSE, "none", "none")

\* handler__string; has_string: the command line holds a character after `" `;
\* uv is the string, one byte long here
handler__string(s, memory, has_string, uv, io_ok) ==
    IF s.scan_data_type # "STRING" THEN Outcome(s, FALSE, "none", "none")
    ELSE IF ~has_string THEN Outcome(s, FALSE, "none", "none")
    ELSE IF s.target = 0 THEN Outcome(s, FALSE, "none", "MATCHEQUALTO")
    ELSE IF has_matches(s)
         THEN Scanned(s, sm_checkmatches(s, memory, "MATCHEQUALTO", uv, io_ok),
                      "sm_checkmatches", "MATCHEQUALTO")
    ELSE Scanned(s, sm_searchregions(s, memory, "MATCHEQUALTO", uv, io_ok),
                 "sm_searchregions", "MATCHEQUALTO")

\* handler__option for scan_data_type; value: the type argv[2] names, "bad"
\* when it names none
handler__option(s, argc, value) ==
    IF argc # 3 THEN Outcome(s, FALSE, "none", "none")
    ELSE IF value \notin DataTypes THEN Outcome(s, FALSE, "none", "none")
    ELSE Outcome([s EXCEPT !.scan_data_type = value], TRUE, "none", "none")

\* the writes of a set command so far: the target's memory, how many more
\* writes sm_setaddr will carry out, the writes done, whether one failed
SetStart(memory, good) == [memory |-> memory, good |-> good, writes |-> <<>>, failed |-> FALSE]

\* flags_to_max_width_in_bytes(flags): the flags are the widths, in bytes,
\* under which the entry matched
flags_to_max_width_in_bytes(flags) ==
    IF flags = {} THEN 0 ELSE CHOOSE n \in flags : \A k \in flags : k <= n

\* the i-th byte (0-based, little-endian) of the number v
ByteOf(v, i) == (v \div (256 ^ i)) % 256

\* the addresses a value of the width of flags covers at addr
Covered(addr, flags) == addr..(addr + flags_to_max_width_in_bytes(flags) - 1)

\* sm_setaddr(vars->target, addr, &v) for a value v with the width flags:
\* fails without a target and when the target refuses the write
sm_setaddr(s, w, addr, flags, v) ==
    IF s.target = 0 \/ w.good = 0 \/ ~(Covered(addr, flags) \subseteq DOMAIN w.memory)
    THEN [w EXCEPT !.failed = TRUE]
    ELSE [w EXCEPT !.memory = [x \in DOMAIN w.memory |->
                                  IF x \in Covered(addr, flags)
                                  THEN ByteOf(v, x - addr) ELSE w.memory[x]],
                   !.good = w.good - 1,
                   !.writes = Append(w.writes, [addr |-> addr, value |-> v,
                                                flags |-> flags])]

\* a set command that reached `fail`
SetFail(w) == [w EXCEPT !.failed = TRUE]

RECURSIVE set_ids(_, _, _, _), set_id(_, _, _, _, _), set_all(_, _, _, _)
\* the loop of handler__set over the match ids between the commas
set_ids(s, w, ids, v) ==
    IF w.failed \/ ids = <<>> THEN w
    ELSE IF ~Head(ids).ok THEN SetFail(w)
    ELSE set_id(s, w, nth_match(s.matches, Head(ids).id), Tail(ids), v)

\* one round of that loop, for the location nth_match returned
set_id(s, w, loc, rest, v) ==
    IF loc.swath = 0 THEN SetFail(w)
    ELSE set_ids(s, sm_setaddr(s, w, loc.addr, loc.flags, v), rest, v)

\* the loop of handler__set over every entry of the store: only actual
\* matches are written
set_all(s, w, places, v) ==
    IF w.failed \/ places = <<>> THEN w
    ELSE IF Head(places).flags # {}
         THEN set_all(s, sm_setaddr(s, w, Head(places).addr, Head(places).flags, v),
                      Tail(places), v)
    ELSE set_all(s, w, Tail(places), v)

\* one block of a set command that takes every block for one without ids
set_block_all(s, w, blk) ==
    IF ~blk.value_ok THEN SetFail(w)
    ELSE set_all(s, w, Places(s.matches.swaths, 1), blk.value)

\* one block of a set command: [all |-> no ids are given, ids |-> the ids,
\* delay |-> what follows a '/', value_ok |-> parse_uservalue_number accepts
\* the value, value |-> the value]
set_block(s, w, blk) ==
    IF ~blk.value_ok THEN SetFail(w)
    ELSE IF blk.all THEN set_all(s, w, Places(s.matches.swaths, 1), blk.value)
    ELSE set_ids(s, w, blk.ids, blk.value)

RECURSIVE set_blocks(_, _, _)
\* one pass of handler__set over its blocks
set_blocks(s, w, blocks) ==
    IF w.failed \/ blocks = <<>> THEN w
    ELSE set_blocks(s, set_block(s, w, Head(blocks)), Tail(blocks))

\* a delay suffix that handler__set refuses while it parses its arguments
BadDelay(blk) == blk.delay \in {"empty", "garbage"}

\* what handler__set leaves: its return value and the target's memory
SetOutcome(w) == [ret |-> ~w.failed, memory |-> w.memory, writes |-> w.writes]

\* handler__set without the test of scan_data_type
handler__set_any_type(s, memory, blocks, good) ==
    IF Len(blocks) + 1 < 2 THEN SetOutcome(SetFail(SetStart(memory, good)))
    ELSE IF s.num_matches = 0 THEN SetOutcome(SetFail(SetStart(memory, good)))
    ELSE IF \E i \in 1..Len(blocks) : BadDelay(blocks[i])
         THEN SetOutcome(SetFail(SetStart(memory, good)))
    ELSE SetOutcome(set_blocks(s, SetStart(memory, good), blocks))

\* handler__set without a positive delay: one pass over the blocks.
\* argc = Len(blocks) + 1.
handler__set(s, memory, blocks, good) ==
    IF Len(blocks) + 1 < 2 THEN SetOutcome(SetFail(SetStart(memory, good)))
    ELSE IF s.scan_data_type \in {"BYTEARRAY", "STRING"}
         THEN SetOutcome(SetFail(SetStart(memory, good)))
    ELSE IF s.num_matches = 0 THEN SetOutcome(SetFail(SetStart(memory, good)))
    ELSE IF \E i \in 1..Len(blocks) : BadDelay(blocks[i])
         THEN SetOutcome(SetFail(SetStart(memory, good)))
    ELSE SetOutcome(set_blocks(s, SetStart(memory, good), blocks))

\* mutant: the flags are cleared and the count is left alone
delete_at_uncounted(s, loc) ==
    IF loc.swath # 0
    THEN Outcome([s EXCEPT !.matches = zero_match_flags(s.matches, loc)],
                 TRUE, "none", "none")
    ELSE Outcome(s, FALSE, "none", "none")

\* handler__delete, once nth_match returned loc
delete_at(s, loc) ==
    IF loc.swath # 0
    THEN Outcome([s EXCEPT !.matches = zero_match_flags(s.matches, loc),
                           !.num_matches = s.num_matches - 1],
                 TRUE, "none", "none")
    ELSE Outcome(s, FALSE, "none", "none")

\* handler__delete without the test of what strtoul left unread
handler__delete_unparsed(s, argc, parse_ok, id) ==
    IF argc # 2 THEN Outcome(s, FALSE, "none", "none")
    ELSE delete_at(s, nth_match(s.matches, id))

\* handler__delete; parse_ok: strtoul reads all of argv[1], as id
handler__delete(s, argc, parse_ok, id) ==
    IF argc # 2 THEN Outcome(s, FALSE, "none", "none")
    ELSE IF ~parse_ok THEN Outcome(s, FALSE, "none", "none")
    ELSE delete_at(s, nth_match(s.matches, id))

\* the place in the list rs of the region with the given id, 0 when none has it
FindRegion(rs, id) ==
    IF \E i \in 1..Len(rs) : rs[i].id = id
    THEN CHOOSE i \in 1..Len(rs) : rs[i].id = id /\ \A j \in 1..(i - 1) : rs[j].id # id
    ELSE 0

\* l_remove(list, prev, &data) for the node at place i
l_remove(rs, i) == SubSeq(rs, 1, i - 1) \o SubSeq(rs, i + 1, Len(rs))

\* l_concat(dst, &src): the nodes of src follow those of dst
l_concat(dst, src) == dst \o src

\* the session with the store and the count that delete_by_region left
AfterSweep(s, d) == [s EXCEPT !.matches = d.matches, !.num_matches = d.num_matches]

\* the sweep of handler__dregion: delete_by_region is called only when
\* num_matches > 0
dregion_sweep(s, r, keep_inside) ==
    IF s.num_matches > 0
    THEN AfterSweep(s, delete_by_region(s.matches, r, keep_inside))
    ELSE s

\* handler__dregion leaves its loop on a bad id: the inverted form puts the
\* regions it set aside back behind those still listed
dregion_fail(s, keep, invert) ==
    Outcome(IF invert THEN [s EXCEPT !.regions = l_concat(s.regions, keep)] ELSE s,
            FALSE, "none", "none")

\* mutant: the inverted form sweeps and does not switch to the keep list
dregion_done_unswitched(s, keep, invert) ==
    IF ~invert THEN Outcome(s, TRUE, "none", "none")
    ELSE IF keep = <<>> THEN Crash(s)
    ELSE Outcome(dregion_sweep(s, keep[1], TRUE), TRUE, "none", "none")

\* handler__dregion behind its loop
dregion_done(s, keep, invert) ==
    IF ~invert THEN Outcome(s, TRUE, "none", "none")
    ELSE IF keep = <<>> THEN Crash(s)
    ELSE Outcome([dregion_sweep(s, keep[1], TRUE) EXCEPT !.regions = keep],
                 TRUE, "none", "none")

RECURSIVE dregion_loop(_, _, _, _), dregion_step(_, _, _, _, _)
\* the loop of handler__dregion over the ids between the commas; each is
\* [ok |-> strtoul read it all, id |-> its value]
dregion_loop(s, keep, invert, ids) ==
    IF ids = <<>> THEN dregion_done(s, keep, invert)
    ELSE IF ~Head(ids).ok THEN dregion_fail(s, keep, invert)
    ELSE dregion_step(s, keep, invert, FindRegion(s.regions, Head(ids).id), Tail(ids))

\* one round of the loop for the region at place i of the list (0: none)
dregion_step(s, keep, invert, i, rest) ==
    IF i = 0 THEN dregion_fail(s, keep, invert)
    ELSE IF invert
         THEN dregion_loop([s EXCEPT !.regions = l_remove(s.regions, i)],
                           Append(keep, s.regions[i]), invert, rest)
    ELSE dregion_loop([dregion_sweep(s, s.regions[i], FALSE)
                          EXCEPT !.regions = l_remove(s.regions, i)],
                      keep, invert, rest)

\* handler__dregion; invert: argv[1] starts with '!'; lone: nothing follows
\* the '!'; ids: the tokens strtok finds between the commas
handler__dregion(s, argc, invert, lone, ids) ==
    IF argc < 2 THEN Outcome(s, FALSE, "none", "none")
    ELSE IF s.target = 0 THEN Outcome(s, FALSE, "none", "none")
    ELSE IF invert /\ lone THEN Outcome(s, FALSE, "none", "none")
    ELSE dregion_loop(s, <<>>, invert, ids)

(* ------------------- the session as a state machine -------------------- *)

Init == InitSession /\ InitStore

\* the process ended in the last command
Dead == cmd.handler # "none" /\ cmd.crashed

\* the session takes the outcome o of the command c
Take(o, c) ==
    /\ ~Dead
    /\ target' = o.target
    /\ matches' = o.matches
    /\ num_matches' = o.num_matches
    /\ regions' = o.regions
    /\ scan_data_type' = o.scan_data_type
    /\ cmd' = [handler |-> c.handler, argv0 |-> c.argv0, argc |-> c.argc,
               ret |-> o.ret, driver |-> o.driver, m |-> o.m, pre |-> Session,
               crashed |-> o.crashed]
    /\ UNCHANGED <<mem, job>>
    /\ UNCHANGED storeVars

\* the session takes the outcome o of the command c; of the history only
\* whether the process survived is kept
Run(o, c) ==
    /\ ~Dead
    /\ target' = o.target
    /\ matches' = o.matches
    /\ num_matches' = o.num_matches
    /\ regions' = o.regions
    /\ scan_data_type' = o.scan_data_type
    /\ cmd' = [handler |-> "any", crashed |-> o.crashed]
    /\ UNCHANGED <<mem, job>>
    /\ UNCHANGED storeVars

\* a pid command: its words, what strtoul reads from argv[1] and what
\* sm_readmaps returns
PidInputs ==
    [handler : {"pid"}, argv0 : {"pid"}, argc : 1..2,
     pid_arg : Pids \cup {0}, maps_ok : BOOLEAN]

PidOutcome(a) == handler__pid(Session, a.argc, a.pid_arg, a.maps_ok)

\* what sm_readmaps returns to a reset command
ResetInputs == [handler : {"reset"}, argv0 : {"reset"}, argc : {1}, maps_ok : BOOLEAN]

ResetOutcome(a) == handler__reset(Session, a.maps_ok)

\* whether the target can be read under a snapshot command
SnapshotInputs ==
    [handler : {"snapshot"}, argv0 : {"snapshot"}, argc : {1}, io_ok : BOOLEAN]

SnapshotOutcome(a) == handler__snapshot(Session, mem, a.io_ok)

\* the arguments of a comparison command: a value is read only from the
\* one argument of argc = 2
DecincInputs ==
    {a \in [handler : {"decinc"}, argv0 : DecincCommands, argc : 1..3,
            parse_ok : BOOLEAN, uv : {u \in UserValues : u.hi = u.lo},
            io_ok : BOOLEAN] :
        /\ a.argc # 2 => a.parse_ok
        /\ ~(a.argc = 2 /\ a.parse_ok) => a.uv = ZeroUserValue}

DecincOutcome(a) ==
    handler__decinc(Session, mem, a.argv0, a.argc, a.parse_ok, a.uv, a.io_ok)

\* a default command: argv0 is what its text can be read as under
\* scan_data_type, uv the value it carries
DefaultInputs ==
    {a \in [handler : {"default"}, argv0 : {"number", "range", "bytearray", "bad"},
            argc : 1..2, uv : UserValues, io_ok : BOOLEAN] :
        /\ a.argv0 \in (CASE scan_data_type = "BYTEARRAY" -> {"bytearray", "bad"}
                          [] scan_data_type = "ANYNUMBER" /\ a.argc = 1 ->
                                {"number", "range", "bad"}
                          [] OTHER -> {"bad"})
        /\ a.uv \in (CASE a.argv0 = "range" -> UserValues
                       [] a.argv0 \in {"number", "bytearray"} ->
                             {u \in UserValues : u.hi = u.lo}
                       [] OTHER -> {ZeroUserValue})}

DefaultOutcome(a) == handler__default(Session, mem, a.argc, a.argv0, a.uv, a.io_ok)

\* whether the target can be read under an update command
UpdateInputs == [handler : {"update"}, argv0 : {"update"}, argc : {1}, io_ok : BOOLEAN]

UpdateOutcome(a) == handler__update(Session, mem, a.io_ok)

\* the arguments of a string command
StringInputs ==
    {a \in [handler : {"string"}, argv0 : {"\""}, argc : {1}, has_string : BOOLEAN,
            uv : {u \in UserValues : u.hi = u.lo}, io_ok : BOOLEAN] :
        ~a.has_string => a.uv = ZeroUserValue}

StringOutcome(a) == handler__string(Session, mem, a.has_string, a.uv, a.io_ok)

\* the arguments of an option command that names scan_data_type
OptionInputs ==
    {a \in [handler : {"option"}, argv0 : {"option"}, argc : 2..3,
            value : DataTypes \cup {"bad"}] :
        a.argc # 3 => a.value = "bad"}

OptionOutcome(a) == handler__option(Session, a.argc, a.value)

\* the ordinals a user may name
MatchIds == 0..2

\* the arguments of a delete command
DeleteInputs ==
    {a \in [handler : {"delete"}, argv0 : {"delete"}, argc : 1..3,
            parse_ok : BOOLEAN, id : MatchIds] :
        /\ a.argc # 2 => ~a.parse_ok
        /\ ~a.parse_ok => a.id = 0}

DeleteOutcome(a) == handler__delete(Session, a.argc, a.parse_ok, a.id)

\* the region ids a user may name, and a token strtoul cannot read
RegionTokens == {[ok |-> TRUE, id |-> i] : i \in 0..2} \cup {[ok |-> FALSE, id |-> 0]}

\* the lists of ids a user may give to dregion
RegionLists == {<<>>} \cup {<<a>> : a \in RegionTokens}
                      \cup {<<a, b>> : a \in RegionTokens, b \in RegionTokens}

\* the arguments of a dregion command: lone is a '!' with nothing after it
DregionInputs ==
    {a \in [handler : {"dregion"}, argv0 : {"dregion"}, argc : 1..2,
            invert : BOOLEAN, lone : BOOLEAN, ids : RegionLists] :
        /\ a.lone => a.argc = 2 /\ a.invert
        /\ ~(a.argc = 2 /\ ~a.lone) => a.ids = <<>>}

DregionOutcome(a) == handler__dregion(Session, a.argc, a.invert, a.lone, a.ids)

Pid == (\E a \in PidInputs : Take(PidOutcome(a), a))

Reset == (\E a \in ResetInputs : Take(ResetOutcome(a), a))

Snapshot == (\E a \in SnapshotInputs : Take(SnapshotOutcome(a), a))

Decinc == (\E a \in DecincInputs : Take(DecincOutcome(a), a))

Default == (\E a \in DefaultInputs : Take(DefaultOutcome(a), a))

Update == (\E a \in UpdateInputs : Take(UpdateOutcome(a), a))

PidStep == (\E a \in PidInputs : Run(PidOutcome(a), a))

ResetStep == (\E a \in ResetInputs : Run(ResetOutcome(a), a))

SnapshotStep == (\E a \in SnapshotInputs : Run(SnapshotOutcome(a), a))

DecincStep == (\E a \in DecincInputs : Run(DecincOutcome(a), a))

DefaultStep == (\E a \in DefaultInputs : Run(DefaultOutcome(a), a))

UpdateStep == (\E a \in UpdateInputs : Run(UpdateOutcome(a), a))

StringStep == (\E a \in StringInputs : Run(StringOutcome(a), a))

OptionStep == (\E a \in OptionInputs : Run(OptionOutcome(a), a))

DeleteStep == (\E a \in DeleteInputs : Run(DeleteOutcome(a), a))

DregionStep == (\E a \in DregionInputs : Run(DregionOutcome(a), a))

\* the match ids a user may name, and a token strtoul cannot read
MatchTokens == {[ok |-> TRUE, id |-> i] : i \in MatchIds} \cup {[ok |-> FALSE, id |-> 0]}

\* the lists of match ids a user may give to set
SetIdLists ==
    {<<>>} \cup {<<a>> : a \in MatchTokens}
           \cup {<<[ok |-> TRUE, id |-> 0], b>> : b \in MatchTokens}

\* a block of set: the ids, the delay suffix, the value
SetBlock(all, ids, delay, value_ok, value) ==
    [all |-> all, ids |-> ids, delay |-> delay, value_ok |-> value_ok, value |-> value]

\* the blocks a user may give to set
SetBlocks ==
    {SetBlock(TRUE, <<>>, d, TRUE, v) : d \in {"none", "zero"}, v \in Bytes}
    \cup {SetBlock(TRUE, <<>>, d, TRUE, 0) : d \in {"empty", "garbage"}}
    \cup {SetBlock(TRUE, <<>>, "none", FALSE, 0)}
    \cup {SetBlock(FALSE, ids, "none", TRUE, v) : ids \in SetIdLists, v \in Bytes}

\* how many writes the target lets through before sm_setaddr fails
WriteBudgets == {0, 1, Cardinality(MemAddrs)}

\* the arguments of a set command with at most one block
SetInputs ==
    {a \in [handler : {"set"}, argv0 : {"set"}, argc : 1..2,
            blocks : {<<>>} \cup {<<b>> : b \in SetBlocks}, good : WriteBudgets] :
        a.argc = Len(a.blocks) + 1}

SetOutcomeOf(a) == handler__set(Session, mem, a.blocks, a.good)

\* the writes of set reach the target's memory
Written(o, c) == mem' = o.memory

SetStep ==
    /\ ~Dead
    /\ (\E a \in SetInputs : Written(SetOutcomeOf(a), a))
    /\ UNCHANGED <<target, matches, num_matches, regions, scan_data_type, cmd, job>>
    /\ UNCHANGED storeVars

\* the target runs and changes one of its bytes
TargetWrites ==
    /\ \E a \in MemAddrs, b \in Bytes :
          /\ mem[a] # b
          /\ mem' = [mem EXCEPT ![a] = b]
    /\ UNCHANGED <<target, matches, num_matches, regions, scan_data_type, cmd, job>>
    /\ UNCHANGED storeVars

Next == Pid \/ Reset \/ Snapshot \/ Decinc \/ Default \/ Update \/ TargetWrites

Spec == Init /\ [][Next]_vars

\* C10: with no match store, a comparison command that resolves to
\* NotChanged, Changed, Increased, Decreased, IncreasedBy or DecreasedBy
\* returns failure without invoking the scan driver and leaves the session
\* unchanged; one that resolves to EqualTo, NotEqualTo, GreaterThan or
\* LessThan is run as a first scan (no comparison command resolves to Range).
C10_FirstScanOnly ==
    (cmd.handler = "decinc" /\ cmd.pre.matches = NoStore /\ cmd.m # "none") =>
        /\ cmd.m \in PriorScanTypes =>
              /\ cmd.ret = FALSE
              /\ cmd.driver = "none"
              /\ Session = cmd.pre
        /\ cmd.m \in {"MATCHEQUALTO", "MATCHNOTEQUALTO", "MATCHGREATERTHAN",
                      "MATCHLESSTHAN"} =>
              cmd.driver = "sm_searchregions"
        /\ cmd.m \in PriorScanTypes \cup
                     {"MATCHEQUALTO", "MATCHNOTEQUALTO", "MATCHGREATERTHAN", "MATCHLESSTHAN"}

\* `+ N` on an attached session without matches is refused
C10_Witness ==
    /\ cmd.handler = "decinc" /\ cmd.pre.matches = NoStore
    /\ cmd.pre.target # 0
    /\ cmd.m = "MATCHINCREASEDBY"
    /\ cmd.ret = FALSE
    /\ matches = NoStore

(* ------------- the session under every command, without history --------- *)

\* int region_id = 99: what handler__list prints for a match it finds in no region
NoRegionId == 99

RECURSIVE region_of(_, _)
\* the walk of handler__list along the regions list from the node np on,
\* for the match at addr: the nodes from the region that holds addr on,
\* none when the walk reaches the end of the list
region_of(np, addr) ==
    IF np = <<>> THEN <<>>
    ELSE IF InRegion(addr, Head(np)) THEN np
    ELSE region_of(Tail(np), addr)

RECURSIVE list_lines(_, _, _)
\* the loop of handler__list over the places of the store: a line for
\* each place with max width > 0, numbered by i++; np is the node of the
\* regions list at which the walk for the last line stopped
list_lines(places, i, np) ==
    IF places = <<>> THEN <<>>
    ELSE IF flags_to_max_width_in_bytes(Head(places).flags) > 0
         THEN LET at == region_of(np, Head(places).addr)
              IN <<[no |-> i, addr |-> Head(places).addr,
                    region_id |-> IF at = <<>> THEN NoRegionId ELSE Head(at).id]>>
                 \o list_lines(Tail(places), i + 1, at)
    ELSE list_lines(Tail(places), i, np)

\* handler__list: what it returns and the lines it prints; alloc_ok: the
\* malloc of its buffer succeeds
handler__list(s, alloc_ok) ==
    IF ~alloc_ok THEN [ret |-> FALSE, lines |-> <<>>]
    ELSE IF s.matches = NoStore THEN [ret |-> TRUE, lines |-> <<>>]
    ELSE [ret |-> TRUE, lines |-> list_lines(Places(s.matches.swaths, 1), 0, s.regions)]

\* a list command: the session is left as it is
ListStep ==
    /\ ~Dead
    /\ \E alloc_ok \in BOOLEAN : handler__list(Session, alloc_ok).ret \in BOOLEAN
    /\ UNCHANGED vars

\* the target's bytes from addr on, n of them, all inside its memory
InMemory(memory, addr, n) == \A i \in 0..(n - 1) : addr + i \in DOMAIN memory

\* sm_read_array(vars->target, addr, buf, n); io_ok: the target lets it read
sm_read_array(s, memory, addr, n, io_ok) ==
    IF s.target = 0 \/ ~io_ok \/ ~InMemory(memory, addr, n)
    THEN [ok |-> FALSE, buf |-> <<>>]
    ELSE [ok |-> TRUE, buf |-> [i \in 1..n |-> memory[addr + i - 1]]]

\* sm_write_array(vars->target, addr, buf, n); wrote: the bytes the target
\* takes before it refuses, all n when it refuses none
sm_write_array(s, memory, addr, buf, wrote) ==
    LET n == Len(buf)
        upto == IF s.target = 0 THEN 0
                ELSE IF InMemory(memory, addr, n) THEN Min(wrote, n)
                ELSE Min(wrote, Cardinality({k \in 0..(n - 1) : InMemory(memory, addr, k + 1)}))
    IN [ret |-> upto = n,
        memory |-> [x \in DOMAIN memory |->
                       IF x >= addr /\ x < addr + upto THEN buf[x - addr + 1]
                       ELSE memory[x]]]

\* the loop of handler__write that copies every byte of arr, wildcard or not
bytearray_buf_plain(elems, buf) == [i \in 1..Len(elems) |-> elems[i].byte]

\* the loop of handler__write over arr: buf[i] = cur_elem->byte unless the
\* element is a wildcard
bytearray_buf(elems, buf) ==
    [i \in 1..Len(elems) |-> IF elems[i].is_wildcard THEN buf[i] ELSE elems[i].byte]

\* handler__write left without a write
WriteFail(memory) == [ret |-> FALSE, memory |-> memory]

\* case 1 of handler__write: the bytearray arr (elems), read first from the target
\* if it holds a wildcard; without one every byte of the malloc'ed buf is
\* set by the loop, so what malloc left in it never shows
write_bytearray(s, memory, addr, elems, read_ok, wrote) ==
    LET wildcard_used == \E i \in 1..Len(elems) : elems[i].is_wildcard
        got == sm_read_array(s, memory, addr, Len(elems), read_ok)
    IN IF wildcard_used /\ ~got.ok THEN WriteFail(memory)
       ELSE sm_write_array(s, memory, addr,
                           bytearray_buf(elems, IF wildcard_used THEN got.buf
                                              ELSE [i \in 1..Len(elems) |-> 0]),
                           wrote)

\* handler__write; type: what argv[1] names ("number" for the six numeric
\* names, "bad" for none); addr_ok: strtoll reads all of argv[2], as addr;
\* parse_ok: sscanf or parse_uservalue_bytearray accepts the value; elems: the
\* bytes of the value, wildcards only in a bytearray
handler__write(s, memory, argc, type, addr_ok, addr, alloc_ok, parse_ok, elems, read_ok, wrote) ==
    IF argc < 4 THEN WriteFail(memory)
    ELSE IF type = "bad" THEN WriteFail(memory)
    ELSE IF type = "number" /\ argc # 4 THEN WriteFail(memory)
    ELSE IF ~addr_ok THEN WriteFail(memory)
    ELSE IF ~alloc_ok THEN WriteFail(memory)
    ELSE IF type = "bytearray"
         THEN IF ~parse_ok THEN WriteFail(memory)
              ELSE write_bytearray(s, memory, addr, elems, read_ok, wrote)
    ELSE IF type = "number" /\ ~parse_ok THEN WriteFail(memory)
    ELSE sm_write_array(s, memory, addr, [i \in 1..Len(elems) |-> elems[i].byte], wrote)

\* the elements of a bytearray: a byte, or a wildcard (is_wildcard set,
\* byte 0)
ByteElements ==
    {[is_wildcard |-> FALSE, byte |-> b] : b \in Bytes}
        \cup {[is_wildcard |-> TRUE, byte |-> 0]}

\* the values a write command carries: one or two elements
WriteValues == {<<a>> : a \in ByteElements} \cup {<<a, b>> : a \in ByteElements, b \in ByteElements}

\* the addresses a user may name: behind 2 and 8 the target has no memory
WriteAddrs == MemAddrs

\* a write command that handler__write turns down before it looks at the value
WriteRefused ==
    {a \in [handler : {"write"}, argv0 : {"write"}, argc : 3..5,
            type : {"number", "bytearray", "string", "bad"},
            addr_ok : BOOLEAN, addr : {1}, alloc_ok : BOOLEAN, parse_ok : BOOLEAN,
            arr : {<<[is_wildcard |-> FALSE, byte |-> 0]>>}, read_ok : {TRUE},
            wrote : {0}] :
        /\ a.type = "bytearray" => a.argc \in {3, 4}
        /\ a.type = "string" => a.parse_ok
        /\ a.argc < 4 \/ a.type = "bad" \/ ~a.addr_ok \/ ~a.alloc_ok \/ ~a.parse_ok}

\* a write command with a value that handler__write takes
WriteTaken ==
    {a \in [handler : {"write"}, argv0 : {"write"}, argc : 4..5,
            type : {"number", "bytearray", "string"},
            addr_ok : {TRUE}, addr : WriteAddrs, alloc_ok : {TRUE}, parse_ok : {TRUE},
            arr : WriteValues, read_ok : BOOLEAN, wrote : 0..2] :
        /\ a.type = "bytearray" => a.argc = Len(a.arr) + 3
        /\ a.type # "bytearray" => \A i \in 1..Len(a.arr) : ~a.arr[i].is_wildcard
        /\ a.type # "bytearray" => Len(a.arr) = 1
        /\ (\A i \in 1..Len(a.arr) : ~a.arr[i].is_wildcard) => a.read_ok
        /\ a.wrote <= Len(a.arr)}

\* the arguments of a write command
WriteInputs == WriteRefused \cup WriteTaken

WriteOutcome(a) ==
    handler__write(Session, mem, a.argc, a.type, a.addr_ok, a.addr, a.alloc_ok,
                   a.parse_ok, a.arr, a.read_ok, a.wrote)

\* the session takes the outcome o of the write command c: its bytes reach
\* the target's memory; the command, what it returned, the target it named
\* and the memory it found and left are kept
Wrote(o, c) ==
    /\ mem' = o.memory
    /\ job' = [handler |-> "write", pc |-> "idle", interrupted |-> FALSE,
               c |-> c, ret |-> o.ret, target |-> target, pre |-> mem,
               post |-> o.memory]

WriteStep ==
    /\ ~Dead
    /\ (\E a \in WriteInputs : Wrote(WriteOutcome(a), a))
    /\ UNCHANGED <<target, matches, num_matches, regions, scan_data_type, cmd>>
    /\ UNCHANGED storeVars

\* the commands around write: pid names the target and write changes its
\* memory
NextWrite == PidStep \/ WriteStep

SpecWrite == Init /\ [][NextWrite]_vars

NextSession ==
    \/ PidStep \/ ResetStep \/ SnapshotStep \/ DecincStep \/ DefaultStep
    \/ UpdateStep \/ StringStep \/ OptionStep \/ DeleteStep \/ DregionStep
    \/ SetStep \/ ListStep \/ TargetWrites

SpecSession == Init /\ [][NextSession]_vars

\* C11 as claimed: a numeric, string or comparison scan runs the first-scan
\* path exactly when num_matches = 0 and the next-scan path otherwise.
C11_WrongPath(o, c) ==
    /\ o.driver # "none"
    /\ ~(o.driver = "sm_searchregions" <=> num_matches = 0)

C11_AsClaimed ==
    ~((\E a \in DefaultInputs : C11_WrongPath(DefaultOutcome(a), a))
       \/ (\E a \in StringInputs : C11_WrongPath(StringOutcome(a), a))
       \/ (\E a \in DecincInputs : C11_WrongPath(DecincOutcome(a), a)))

\* a scan command that scans on the wrong side of the store test
C11_WrongStorePath(o, c) ==
    /\ o.driver # "none"
    /\ ~(o.driver = "sm_searchregions" <=> matches = NoStore)

\* C11: in every session that a sequence of commands reaches, a numeric,
\* string or comparison scan that invokes the scan driver runs the first
\* scan exactly when the session holds no match store, and the next scan
\* whenever it holds one, also when num_matches = 0.
C11_Path ==
    ~((\E a \in DefaultInputs : C11_WrongStorePath(DefaultOutcome(a), a))
       \/ (\E a \in StringInputs : C11_WrongStorePath(StringOutcome(a), a))
       \/ (\E a \in DecincInputs : C11_WrongStorePath(DecincOutcome(a), a)))

C11_NextScan(o, c) == o.driver = "sm_checkmatches" /\ o.ret

\* a store that holds no match is narrowed by a numeric scan
C11_Witness ==
    /\ matches # NoStore /\ num_matches = 0
    /\ (\E a \in DefaultInputs : C11_NextScan(DefaultOutcome(a), a))

\* the match types of the comparison shorthands, without and with an operand
C12_Table ==
    [c \in DecincCommands |->
        CASE c = "="  -> <<"MATCHNOTCHANGED", "MATCHEQUALTO">>
          [] c = "!=" -> <<"MATCHCHANGED", "MATCHNOTEQUALTO">>
          [] c = "<"  -> <<"MATCHDECREASED", "MATCHLESSTHAN">>
          [] c = ">"  -> <<"MATCHINCREASED", "MATCHGREATERTHAN">>
          [] c = "+"  -> <<"MATCHINCREASED", "MATCHINCREASEDBY">>
          [] c = "-"  -> <<"MATCHDECREASED", "MATCHDECREASEDBY">>]

\* C12: a comparison shorthand without operand resolves to NotChanged (=),
\* Changed (!=), Decreased (< and -) or Increased (> and +), with one
\* operand to EqualTo, NotEqualTo, LessThan, GreaterThan, IncreasedBy or
\* DecreasedBy; with more than one operand it fails without a scan and
\* leaves the session as it was.
C12_Mapping ==
    cmd.handler = "decinc" =>
        /\ cmd.argc > 2 =>
              /\ cmd.ret = FALSE
              /\ cmd.driver = "none"
              /\ cmd.m = "none"
              /\ Session = cmd.pre
        /\ cmd.argc = 1 => cmd.m = C12_Table[cmd.argv0][1]
        /\ (cmd.argc = 2 /\ cmd.m # "none") => cmd.m = C12_Table[cmd.argv0][2]
        /\ cmd.driver # "none" => cmd.m = C12_Table[cmd.argv0][cmd.argc]

\* `- N` narrowed an existing store by DecreasedBy
C12_Witness ==
    /\ cmd.handler = "decinc" /\ cmd.argv0 = "-" /\ cmd.argc = 2
    /\ cmd.m = "MATCHDECREASEDBY"
    /\ cmd.driver = "sm_checkmatches" /\ cmd.ret
    /\ cmd.pre.num_matches > num_matches

\* the entries of the session's store
Entries == Enumerate(matches.swaths)

\* the entries of the session's store that are matches
Flagged == {i \in 1..Len(Entries) : Entries[i].elem.match_info # {}}

MatchAddrs(st) ==
    {e.addr : e \in {x \in {Enumerate(st.swaths)[i] : i \in 1..Len(Enumerate(st.swaths))} :
                        x.elem.match_info # {}}}

\* a scan on an existing store that adds a match
C14_Grows(o, c) ==
    /\ matches # NoStore
    /\ o.driver # "none"
    /\ ~(/\ o.num_matches <= num_matches
         /\ MatchAddrs(o.matches) \subseteq MatchAddrs(matches))

\* C14: every scan issued while a store exists (a comparison, a numeric or
\* string scan, an update) leaves num_matches at most what it was, and every
\* match that survives was a match at the same address before.
C14_Narrowing ==
    ~((\E a \in DefaultInputs : C14_Grows(DefaultOutcome(a), a))
       \/ (\E a \in StringInputs : C14_Grows(StringOutcome(a), a))
       \/ (\E a \in DecincInputs : C14_Grows(DecincOutcome(a), a))
        \/ (\E a \in UpdateInputs : C14_Grows(UpdateOutcome(a), a)))

\* a comparison that drops some matches and keeps others
C14_Drops(o, c) ==
    /\ o.ret /\ o.driver = "sm_checkmatches"
    /\ o.num_matches < num_matches
    /\ o.num_matches > 0

C14_Witness ==
    /\ matches # NoStore
    /\ (\E a \in DecincInputs : C14_Drops(DecincOutcome(a), a))
    /\ (\E a \in UpdateInputs : C11_NextScan(UpdateOutcome(a), a))

\* address a lies inside one of the regions of the list rs
InRegions(a, rs) == \E i \in 1..Len(rs) : InRegion(a, rs[i])

\* a successful dregion after which the matches are not the former matches
\* inside the surviving regions
C15_Wrong(o, c) ==
    /\ o.ret /\ ~o.crashed
    /\ MatchAddrs(o.matches) # {a \in MatchAddrs(matches) : InRegions(a, o.regions)}

\* C15 as claimed: after a successful dregion, plain or inverted, an entry
\* has non-zero flags if and only if it had them before and its address
\* lies inside a region that is still listed.
C15_AsClaimed == ~(\E a \in DregionInputs : C15_Wrong(DregionOutcome(a), a))

\* the regions of the list rs as a set
RegionSet(rs) == {rs[i] : i \in 1..Len(rs)}

\* the ids the list ids names
NamedIds(ids) == {ids[i].id : i \in 1..Len(ids)}

\* a successful dregion that leaves other regions than the claim says
C16_Wrong(o, c) ==
    /\ o.ret /\ ~o.crashed
    /\ ~(/\ Len(o.regions) = Cardinality(RegionSet(o.regions))
         /\ RegionSet(o.regions) =
               IF c.invert
               THEN {r \in RegionSet(regions) : r.id \in NamedIds(c.ids)}
               ELSE {r \in RegionSet(regions) : r.id \notin NamedIds(c.ids)})

\* C16: after a successful `dregion L` the regions list holds exactly the
\* regions listed before whose ids are not in L, after a successful
\* `dregion !L` exactly those whose ids are in L.
C16_Regions == ~(\E a \in DregionInputs : C16_Wrong(DregionOutcome(a), a))

C16_PlainDrop(o, c) == o.ret /\ ~c.invert /\ Len(c.ids) = 1 /\ Len(o.regions) = 1

C16_InvertedKeep(o, c) == o.ret /\ c.invert /\ Len(c.ids) = 1 /\ Len(o.regions) = 1

\* a session with two regions and matches from which either form drops one
C16_Witness ==
    /\ Len(regions) = 2 /\ num_matches > 0
    /\ (\E a \in DregionInputs : C16_PlainDrop(DregionOutcome(a), a))
    /\ (\E a \in DregionInputs : C16_InvertedKeep(DregionOutcome(a), a))

\* the outcome o leaves the session as it is
Untouched(o) ==
    /\ o.target = target
    /\ o.matches = matches
    /\ o.num_matches = num_matches
    /\ o.regions = regions
    /\ o.scan_data_type = scan_data_type

\* a pid command with an argument that is no pid, which succeeds or changes
\* the session
C17_Wrong(o, c) ==
    /\ c.argc = 2 /\ c.pid_arg = 0
    /\ ~(o.ret = FALSE /\ Untouched(o))

\* C17 as claimed: a pid command whose argument parses to 0 returns failure
\* and leaves the target set before, the match store, num_matches and the
\* regions list as they were.
C17_AsClaimed == ~(\E a \in PidInputs : C17_Wrong(PidOutcome(a), a))

\* a dregion that fails on one of its ids and leaves the session changed
C18_Wrong(o, c) ==
    /\ c.argc = 2 /\ target # 0 /\ ~c.lone
    /\ o.ret = FALSE /\ ~o.crashed
    /\ ~Untouched(o)

\* C18 as claimed: when dregion fails because an id of its list is
\* unparsable or names no listed region, the regions list, the flags of the
\* store and num_matches are as before the command, in the plain and in the
\* inverted form.
C18_AsClaimed == ~(\E a \in DregionInputs : C18_Wrong(DregionOutcome(a), a))

\* the ordinal of a delete command names no match of the store
NoSuchMatch(c) == nth_match(matches, c.id).swath = 0

\* a delete command of one of the three failing kinds that succeeds or
\* changes the session
C19_Wrong(o, c) ==
    /\ c.argc # 2 \/ ~c.parse_ok \/ NoSuchMatch(c)
    /\ ~(o.ret = FALSE /\ ~o.crashed /\ Untouched(o))

\* C19: delete with a wrong argument count, an unparsable id, or an ordinal
\* for which nth_match finds no match returns failure and leaves every entry
\* of the store and num_matches unchanged.
C19_Failure == ~(\E a \in DeleteInputs : C19_Wrong(DeleteOutcome(a), a))

\* a failing delete whose ordinal is read but lies beyond the matches
C19_Beyond(o, c) == c.argc = 2 /\ c.parse_ok /\ NoSuchMatch(c) /\ ~o.ret

\* a failing delete whose id is unparsable
C19_Unparsed(o, c) == c.argc = 2 /\ ~c.parse_ok /\ ~o.ret

\* a failing delete with a wrong argument count
C19_Miscounted(o, c) == c.argc # 2 /\ ~o.ret

\* all three failing kinds happen in a session that has matches to delete
C19_Witness ==
    /\ num_matches > 0
    /\ (\E a \in DeleteInputs : C19_Beyond(DeleteOutcome(a), a))
    /\ (\E a \in DeleteInputs : C19_Unparsed(DeleteOutcome(a), a))
    /\ (\E a \in DeleteInputs : C19_Miscounted(DeleteOutcome(a), a))

\* a set command performed no write: none is recorded and the target's
\* memory is as it was
NoWrite(o) == o.writes = <<>> /\ o.memory = mem

\* a set command of one of the three refused kinds that succeeds or writes
C20_Wrong(o, c) ==
    /\ \/ c.argc < 2
       \/ scan_data_type \in {"BYTEARRAY", "STRING"}
       \/ num_matches = 0
    /\ ~(o.ret = FALSE /\ NoWrite(o))

\* C20: set returns failure without any write to the target, and so without
\* any change it could make, when it is called with no argument, when
\* scan_data_type is bytearray or string, or when num_matches = 0.
C20_Refused == ~(\E a \in SetInputs : C20_Wrong(SetOutcomeOf(a), a))

\* a set of every match to a readable value, which the target would let
\* through, fails
C20_Writable(o, c) ==
    /\ c.argc = 2 /\ c.good > 0
    /\ c.blocks[1].all /\ c.blocks[1].value_ok /\ c.blocks[1].delay = "none"
    /\ c.blocks[1].value # mem[nth_match(matches, 0).addr]
    /\ ~o.ret

\* a set without an argument fails
C20_Bare(o, c) == c.argc < 2 /\ ~o.ret

\* a session with a target and matches whose scan_data_type is string: the
\* set that would otherwise write is refused, and so is the bare set
C20_Witness ==
    /\ target # 0 /\ num_matches > 0 /\ scan_data_type = "STRING"
    /\ (\E a \in SetInputs : C20_Writable(SetOutcomeOf(a), a))
    /\ (\E a \in SetInputs : C20_Bare(SetOutcomeOf(a), a))

(* ------------------- the loops of set and watch ------------------------ *)

\* the bytes of a value_t that are kept (little-endian, the low ones)
ValueBytes == 2

\* the longest delay a block of set is given
MaxDelay == 3

\* the seconds a continuous set is followed for
MaxSeconds == 6

\* the sleeps a watch is followed for
MaxSleeps == 2

\* sm_globals: the session before the first command
sm_globals ==
    [target |-> 0, matches |-> NoStore, num_matches |-> 0, regions |-> <<>>,
     scan_data_type |-> "ANYNUMBER"]

\* the session an outcome leaves
SessionOf(o) ==
    [target |-> o.target, matches |-> o.matches, num_matches |-> o.num_matches,
     regions |-> o.regions, scan_data_type |-> o.scan_data_type]

\* the widths under which the bytes at address a can be read inside one region
WidthsAt(a, rs) ==
    {n \in 1..ValueBytes :
        \E i \in 1..Len(rs) : InRegion(a, rs[i]) /\ InRegion(a + n - 1, rs[i])}

\* what a first scan that matches anything keeps when the scan routine
\* tries every width: each byte of the regions, flagged with its widths
AnyItems(memory, rs) ==
    [i \in 1..Len(RegionAddrs(rs)) |->
        [addr |-> RegionAddrs(rs)[i],
         elem |-> [old_value |-> memory[RegionAddrs(rs)[i]],
                   match_info |-> WidthsAt(RegionAddrs(rs)[i], rs)]]]

\* the session after such a scan of the memory
WideScan(s, memory) ==
    SessionOf(Scanned(s, ScanDone(ScanInto(allocate(sizeof_array + sizeof_swath,
                                                    MaxNeededFor(s.regions)),
                                           AnyItems(memory, s.regions))),
                      "sm_searchregions", "MATCHANY"))

\* the sessions a set or watch command is given in: without a target, with
\* a target, after a snapshot of byte-wide matches, after a scan of every
\* width, after that scan and `delete 1`, after that scan and
\* `option scan_data_type string`
LoopSessions(memory) ==
    LET attached == SessionOf(handler__pid(sm_globals, 2, 1, TRUE))
        scanned == WideScan(attached, memory)
    IN {sm_globals, attached, scanned,
        SessionOf(handler__snapshot(attached, memory, TRUE)),
        SessionOf(handler__delete(scanned, 2, TRUE, 1)),
        SessionOf(handler__option(scanned, 3, "STRING"))}

\* the memories of the target when the command is given
LoopMemories == {[a \in MemAddrs |-> 0], [a \in MemAddrs |-> IF a = 2 THEN 0 ELSE 1]}

InitLoop ==
    /\ arr = NULL
    /\ block_loc = NULL
    /\ store = NoStore
    /\ swath = NULL
    /\ status = "init"
    /\ added = <<>>
    /\ last = NoCall
    /\ \E memory \in LoopMemories :
       \E s \in LoopSessions(memory) :
          /\ mem = memory
          /\ target = s.target
          /\ matches = s.matches
          /\ num_matches = s.num_matches
          /\ regions = s.regions
          /\ scan_data_type = s.scan_data_type
    /\ cmd = NoCmd
    /\ job = NoJob

\* a block of set as handler__set parses it into a settings struct:
\* seconds is 0 without a delay suffix (calloca) and with the suffix /0
LoopBlock(all, ids, delay, seconds, value_ok) ==
    [all |-> all, ids |-> ids, delay |-> delay, seconds |-> seconds,
     value_ok |-> value_ok, value |-> 1]

\* the blocks the set commands of the loop are made of
LoopBlocks ==
    {LoopBlock(TRUE, <<>>, IF n = 0 THEN "none" ELSE "positive", n, TRUE) :
        n \in 0..MaxDelay}
    \cup {LoopBlock(FALSE, <<[ok |-> TRUE, id |-> 1]>>,
                    IF n = 0 THEN "zero" ELSE "positive", n, TRUE) : n \in 0..MaxDelay}
    \cup {LoopBlock(FALSE, <<[ok |-> TRUE, id |-> 0], [ok |-> TRUE, id |-> 2]>>,
                    "none", 0, TRUE),
          LoopBlock(TRUE, <<>>, "positive", 1, FALSE),
          LoopBlock(TRUE, <<>>, "garbage", 0, TRUE)}

\* the set commands: none, one or two blocks
LoopSettings ==
    {<<>>} \cup {<<b>> : b \in LoopBlocks}
           \cup {<<b, c>> : b \in LoopBlocks, c \in LoopBlocks}

\* handler__set as it stands before its first check
SetJob(s, blocks) ==
    [handler |-> "set", pc |-> "returned", ret |-> FALSE, pre |-> s,
     settings |-> blocks, cont |-> FALSE, seconds |-> 1, blk |-> 1,
     ran |-> [i \in 1..Len(blocks) |-> <<>>], passes |-> 0, writes |-> <<>>,
     entered |-> FALSE, interruptible |-> FALSE, attached |-> FALSE,
     interrupted |-> FALSE]

\* handler__set up to INTERRUPTABLE(): the checks, the parse of the delay
\* suffixes, cont
set_begin(s, blocks) ==
    IF Len(blocks) + 1 < 2 THEN SetJob(s, blocks)
    ELSE IF s.scan_data_type \in {"BYTEARRAY", "STRING"} THEN SetJob(s, blocks)
    ELSE IF s.num_matches = 0 THEN SetJob(s, blocks)
    ELSE IF \E i \in 1..Len(blocks) : BadDelay(blocks[i]) THEN SetJob(s, blocks)
    ELSE [SetJob(s, blocks) EXCEPT
             !.pc = "block", !.entered = TRUE, !.interruptible = TRUE,
             !.cont = \E i \in 1..Len(blocks) : blocks[i].seconds # 0]

\* the block at j.blk has something to do in this iteration
set_due(j) ==
    \/ j.seconds = 1
    \/ /\ j.settings[j.blk].seconds # 0
       /\ j.seconds % j.settings[j.blk].seconds = 0

\* ENDINTERRUPTABLE(); return ret;
set_return(j, ret) == [j EXCEPT !.pc = "returned", !.ret = ret, !.interruptible = FALSE]

\* the set job after its block j.blk was executed with the writes w
set_ran(j, w) ==
    IF w.failed THEN set_return([j EXCEPT !.writes = @ \o w.writes], FALSE)
    ELSE [j EXCEPT !.blk = j.blk + 1, !.ran[j.blk] = Append(@, j.seconds),
                   !.writes = @ \o w.writes]

\* the end of the for loop over the blocks without the test of cont
set_pass_end_once(j) == set_return([j EXCEPT !.passes = j.passes + 1], TRUE)

\* the end of the for loop over the blocks: sleep(1) or break
set_pass_end(j) ==
    IF j.cont THEN [j EXCEPT !.pc = "sleep", !.passes = j.passes + 1]
    ELSE set_return([j EXCEPT !.passes = j.passes + 1], TRUE)

\* a set or watch command is in its interruptible section
InLoop == job.pc \notin {"idle", "returned"}

\* the other variables of a step of the job that leaves the target's memory alone
JobOnly ==
    /\ UNCHANGED <<target, matches, num_matches, regions, scan_data_type, mem, cmd>>
    /\ UNCHANGED storeVars

\* the other variables of a step of the job that writes to the target
JobAndMemory ==
    /\ UNCHANGED <<target, matches, num_matches, regions, scan_data_type, cmd>>
    /\ UNCHANGED storeVars

\* the user gives a set command
SetBegin ==
    /\ job.pc = "idle"
    /\ \E blocks \in LoopSettings : job' = set_begin(Session, blocks)
    /\ JobOnly

\* a block that has nothing to do in this iteration: continue
SetSkip ==
    /\ job.handler = "set" /\ job.pc = "block"
    /\ job.blk <= Len(job.settings)
    /\ ~set_due(job)
    /\ job' = [job EXCEPT !.blk = job.blk + 1]
    /\ JobOnly

\* the writes w of one block reach the target and the job goes on
SetWritten(w) == mem' = w.memory /\ job' = set_ran(job, w)

\* a block is executed
SetBlockStep ==
    /\ job.handler = "set" /\ job.pc = "block"
    /\ job.blk <= Len(job.settings)
    /\ set_due(job)
    /\ \E good \in WriteBudgets :
          SetWritten(set_block(Session, SetStart(mem, good), job.settings[job.blk]))
    /\ JobAndMemory

\* every block was looked at
SetPassEnd ==
    /\ job.handler = "set" /\ job.pc = "block"
    /\ job.blk = Len(job.settings) + 1
    /\ job' = set_pass_end(job)
    /\ JobOnly

\* sleep(1); seconds++;
SetSleep ==
    /\ job.handler = "set" /\ job.pc = "sleep"
    /\ job.seconds < MaxSeconds
    /\ job' = [job EXCEPT !.pc = "block", !.blk = 1, !.seconds = job.seconds + 1]
    /\ JobOnly

RECURSIVE FromBytes(_)
\* the number whose little-endian bytes are bs
FromBytes(bs) == IF bs = <<>> THEN 0 ELSE Head(bs) + 256 * FromBytes(Tail(bs))

\* data_to_val(swath, idx): the old values from idx to the end of the swath,
\* as many as a value holds
data_to_val(sw, idx) ==
    FromBytes([i \in 1..Min(sw.number_of_bytes - idx, ValueBytes) |->
                  EntryAt(sw, idx + i).old_value])

\* truncval(&v, &old_val): v cut to the width of the flags of old_val
truncval(v, flags) == v % (256 ^ flags_to_max_width_in_bytes(flags))

\* what sm_peekdata reads at addr: as many bytes as a value holds, 0 where
\* the target maps nothing
sm_peekdata(memory, addr) ==
    FromBytes([i \in 1..ValueBytes |->
                  IF addr + i - 1 \in DOMAIN memory THEN memory[addr + i - 1] ELSE 0])

\* the MATCHCHANGED routine of ANYNUMBER on the values o and n of a match
\* with the given flags
valcmp_changed(o, n, flags) == truncval(o, flags) # truncval(n, flags)

\* handler__watch as it stands before its first check
WatchJob(s) ==
    [handler |-> "watch", pc |-> "returned", ret |-> FALSE, pre |-> s,
     addr |-> 0, flags |-> {}, old_val |-> 0, o |-> 0, log |-> <<>>, iter |-> 0,
     interruptible |-> FALSE, attached |-> FALSE, interrupted |-> FALSE]

\* handler__watch from nth_match to INTERRUPTABLE(), for the location loc
watch_at(s, loc) ==
    IF loc.swath = 0 THEN WatchJob(s)
    ELSE [WatchJob(s) EXCEPT
             !.pc = "attach", !.interruptible = TRUE,
             !.addr = loc.addr, !.flags = loc.flags,
             !.old_val = data_to_val(s.matches.swaths[loc.swath], loc.index),
             !.o = data_to_val(s.matches.swaths[loc.swath], loc.index)]

\* handler__watch up to INTERRUPTABLE()
watch_begin(s, argc, parse_ok, id) ==
    IF argc # 2 THEN WatchJob(s)
    ELSE IF s.scan_data_type \in {"BYTEARRAY", "STRING"} THEN WatchJob(s)
    ELSE IF ~parse_ok THEN WatchJob(s)
    ELSE watch_at(s, nth_match(s.matches, id))

\* if (sm_attach(vars->target) == false) return false;
watch_attach(j, ok) ==
    IF ok THEN [j EXCEPT !.pc = "peek", !.attached = TRUE]
    ELSE [j EXCEPT !.pc = "returned", !.ret = FALSE]

\* the iteration of watch without valcpy(&o, &n) after a report
watch_compare_stale(j, read) ==
    [j EXCEPT !.pc = "detach",
              !.log = Append(@, [read |-> read,
                                 reported |-> valcmp_changed(j.o, truncval(read, j.flags),
                                                             j.flags)])]

\* the iteration of watch from truncval to sm_detach for the value read:
\* truncval(&n, &old_val), the comparison, the report of a change
watch_compare(j, read) ==
    IF valcmp_changed(j.o, truncval(read, j.flags), j.flags)
    THEN [j EXCEPT !.pc = "detach", !.o = truncval(truncval(read, j.flags), j.flags),
                   !.log = Append(@, [read |-> read, reported |-> TRUE])]
    ELSE [j EXCEPT !.pc = "detach",
                   !.log = Append(@, [read |-> read, reported |-> FALSE])]

\* if (sm_peekdata(vars->target, addr, &n) == false) return false; and the
\* rest of the iteration up to sm_detach
watch_peek(j, memory, ok) ==
    IF ok THEN watch_compare(j, sm_peekdata(memory, j.addr))
    ELSE [j EXCEPT !.pc = "returned", !.ret = FALSE]

\* the interrupt ends the command without the call of sm_detach
on_interrupt_attached(j) ==
    [j EXCEPT !.pc = "returned", !.ret = TRUE,
              !.interruptible = FALSE, !.interrupted = TRUE]

\* the body of `if (INTERRUPTABLE())` in handler__set and handler__watch:
\* sm_detach(vars->target); ENDINTERRUPTABLE(); return true;
on_interrupt(j) ==
    [j EXCEPT !.pc = "returned", !.ret = TRUE, !.attached = FALSE,
              !.interruptible = FALSE, !.interrupted = TRUE]

\* the arguments of a watch command
WatchInputs ==
    {a \in [argc : 1..3, parse_ok : BOOLEAN, id : MatchIds] :
        /\ a.argc # 2 => ~a.parse_ok
        /\ ~a.parse_ok => a.id = 0}

\* the user gives a watch command
WatchBegin ==
    /\ job.pc = "idle"
    /\ \E a \in WatchInputs : job' = watch_begin(Session, a.argc, a.parse_ok, a.id)
    /\ JobOnly

WatchAttach ==
    /\ job.handler = "watch" /\ job.pc = "attach"
    /\ \E ok \in BOOLEAN : job' = watch_attach(job, ok)
    /\ JobOnly

WatchPeek ==
    /\ job.handler = "watch" /\ job.pc = "peek"
    /\ \E ok \in BOOLEAN : job' = watch_peek(job, mem, ok)
    /\ JobOnly

\* sm_detach(vars->target);
WatchDetach ==
    /\ job.handler = "watch" /\ job.pc = "detach"
    /\ job' = [job EXCEPT !.pc = "sleep", !.attached = FALSE]
    /\ JobOnly

\* (void) sleep(1);
WatchSleep ==
    /\ job.handler = "watch" /\ job.pc = "sleep"
    /\ job.iter < MaxSleeps
    /\ job' = [job EXCEPT !.pc = "attach", !.iter = job.iter + 1]
    /\ JobOnly

\* the job is about to execute a block of set
AtBlock ==
    /\ job.handler = "set" /\ job.pc = "block"
    /\ job.blk <= Len(job.settings)
    /\ set_due(job)

\* the interrupt lands in a block of set, after the writes w
SetCut(w) ==
    /\ mem' = w.memory
    /\ job' = on_interrupt([job EXCEPT !.writes = @ \o w.writes])

\* the interrupt is delivered inside the interruptible section; inside a
\* block of set it lands after any number of the block's writes
Interrupt ==
    /\ InLoop
    /\ job.interruptible
    /\ IF AtBlock
       THEN \E good \in WriteBudgets :
               SetCut(set_block(Session, SetStart(mem, good), job.settings[job.blk]))
       ELSE job' = on_interrupt(job) /\ UNCHANGED mem
    /\ JobAndMemory

NextLoop ==
    \/ SetBegin \/ SetSkip \/ SetBlockStep \/ SetPassEnd \/ SetSleep
    \/ WatchBegin \/ WatchAttach \/ WatchPeek \/ WatchDetach \/ WatchSleep
    \/ Interrupt \/ TargetWrites

SpecLoop == InitLoop /\ [][NextLoop]_vars

\* C21: a set or watch command that the interrupt ended has returned
\* success with the target detached and the interruptible section closed,
\* and the target, the match store, num_matches and the regions list are
\* those the command was given in.
C21_Interrupted ==
    job.interrupted =>
        /\ job.pc = "returned" /\ job.ret
        /\ ~job.attached /\ ~job.interruptible
        /\ Session = job.pre

\* a continuous set was interrupted after it had completed a pass over a
\* session with matches
C21_Witness ==
    /\ job.handler = "set" /\ job.interrupted
    /\ job.passes >= 1
    /\ num_matches > 0

\* C22 as claimed: watch never returns with the target still attached.
C22_AsClaimed == (job.handler = "watch" /\ job.pc = "returned") => ~job.attached

\* the matches of the store st in walking order: the entries with flags
MatchesOf(st) ==
    LET flagged(e) == e.elem.match_info # {}
    IN SelectSeq(Enumerate(st.swaths), flagged)

\* the write of the value v to the match e
WriteTo(e, v) == [addr |-> e.addr, value |-> v, flags |-> e.elem.match_info]

\* the writes a block owes to the store st: to every match, or to the
\* matches its ordinals name, in their order
Owed(st, blk) ==
    IF blk.all
    THEN [i \in 1..Len(MatchesOf(st)) |-> WriteTo(MatchesOf(st)[i], blk.value)]
    ELSE [i \in 1..Len(blk.ids) |-> WriteTo(MatchesOf(st)[blk.ids[i].id + 1], blk.value)]

RECURSIVE OwedAll(_, _)
\* the writes one pass over the blocks owes
OwedAll(st, blocks) ==
    IF blocks = <<>> THEN <<>>
    ELSE Owed(st, Head(blocks)) \o OwedAll(st, Tail(blocks))

\* the write wr is one the block blk owes to a match it selects
Selects(blk, wr) ==
    IF blk.all
    THEN \E k \in 1..Len(MatchesOf(matches)) : wr = WriteTo(MatchesOf(matches)[k], blk.value)
    ELSE \E k \in 1..Len(blk.ids) :
            /\ blk.ids[k].id < Len(MatchesOf(matches))
            /\ wr = WriteTo(MatchesOf(matches)[blk.ids[k].id + 1], blk.value)

\* a set command without a positive delay returned success
SetSucceeded ==
    /\ job.handler = "set" /\ job.pc = "returned"
    /\ job.ret /\ ~job.interrupted /\ ~job.cont

\* C23: a successful set wrote its value, under the flags of each match, to
\* the address of each match an ordinal names (to every match with flags
\* when no ids are given) and to no other; whatever a set command has
\* written so far, also one that is interrupted or fails, went to a match
\* one of its blocks selects; the store is not modified.
C23_Writes ==
    job.handler = "set" =>
        /\ SetSucceeded => job.writes = OwedAll(matches, job.settings)
        /\ \A i \in 1..Len(job.writes) :
              \E b \in 1..Len(job.settings) : Selects(job.settings[b], job.writes[i])
        /\ Session = job.pre

\* `set 0,2=1` succeeded on three matches, the first of them two bytes
\* wide: two writes, none to the match in between
C23_Witness ==
    /\ SetSucceeded
    /\ Len(MatchesOf(matches)) = 3
    /\ Len(job.settings) = 1 /\ ~job.settings[1].all /\ Len(job.settings[1].ids) = 2
    /\ Len(job.writes) = 2
    /\ job.writes[1].flags = {1, 2}
    /\ job.writes[2].addr # MatchesOf(matches)[2].addr

\* the one-second sleeps between the k-th and the next execution of block b:
\* an execution in the iteration numbered seconds comes after seconds - 1 sleeps
SleepsBetween(b, k) == job.ran[b][k + 1] - job.ran[b][k]

\* C24 as claimed: any two consecutive executions of a block of set with
\* delay N > 0, the first and the second included, are N one-second sleeps
\* apart.
C24_AsClaimed ==
    job.handler = "set" =>
        \A b \in 1..Len(job.settings) :
            job.settings[b].seconds > 0 =>
                \A k \in 1..(Len(job.ran[b]) - 1) :
                    SleepsBetween(b, k) = job.settings[b].seconds

\* C29: a set command that reaches its loop returns after one pass exactly
\* when no block carries a positive delay; with a positive delay it goes
\* on pass after pass and returns only when interrupted or when a write or
\* a parse fails; a block with an absent or zero delay is executed in the
\* first pass and in no other.
C29_Passes ==
    job.handler = "set" =>
        /\ job.entered =>
              (job.cont <=> \E b \in 1..Len(job.settings) : job.settings[b].seconds > 0)
        /\ ~job.entered => job.passes = 0 /\ job.pc = "returned" /\ ~job.ret
        /\ ~job.cont =>
              /\ job.seconds = 1 /\ job.passes <= 1
              /\ job.passes = 1 => job.pc = "returned" /\ job.ret
              /\ (job.pc = "returned" /\ job.ret /\ ~job.interrupted) => job.passes = 1
        /\ job.cont => (job.pc = "returned" => job.interrupted \/ ~job.ret)
        /\ \A b \in 1..Len(job.settings) :
              job.settings[b].seconds = 0 =>
                  /\ job.ran[b] \in {<<>>, <<1>>}
                  /\ job.passes >= 1 => job.ran[b] = <<1>>

\* a continuous set of two blocks in its fourth pass: the block with the
\* delay was executed again and again, the one without only once
C29_Witness ==
    /\ job.handler = "set" /\ job.cont /\ job.pc = "block"
    /\ job.passes = 3
    /\ Len(job.settings) = 2
    /\ job.settings[1].seconds = 0 /\ job.ran[1] = <<1>>
    /\ job.settings[2].seconds = 1 /\ Len(job.ran[2]) = 3

\* the old value the store holds for address a, 0 when it holds none
OldAt(a) ==
    LET at(e) == e.addr = a
    IN IF SelectSeq(Enumerate(matches.swaths), at) = <<>> THEN 0
       ELSE SelectSeq(Enumerate(matches.swaths), at)[1].elem.old_value

\* the width in bytes of the match that is watched
WatchedWidth == flags_to_max_width_in_bytes(job.flags)

\* the old value stored for the match that is watched, under its width
StoredOld == FromBytes([i \in 1..WatchedWidth |-> OldAt(job.addr + i - 1)])

\* a value read, cut to the width of the match that is watched
Cut(v) == v % (256 ^ WatchedWidth)

RECURSIVE Reference(_)
\* the value last reported after the first k iterations of watch, the
\* stored old value as long as none was reported
Reference(k) ==
    IF k = 0 THEN StoredOld
    ELSE IF job.log[k].reported THEN Cut(job.log[k].read)
    ELSE Reference(k - 1)

\* C28: in each iteration of watch a change is reported if and only if the
\* value read, cut to the width of the match, differs from the value last
\* reported, which is at first the old value stored in the match and after
\* a report the value just read; a value that stays the same is therefore
\* reported at most once.
C28_Reports ==
    job.handler = "watch" =>
        \A k \in 1..Len(job.log) :
            job.log[k].reported <=> Cut(job.log[k].read) # Reference(k - 1)

\* three iterations on a byte-wide match: a change is reported, the same
\* value is read again and not reported, then the byte behind the match
\* changes and nothing is reported
C28_Witness ==
    /\ job.handler = "watch" /\ WatchedWidth = 1
    /\ Len(job.log) = 3
    /\ job.log[1].reported
    /\ job.log[2].read = job.log[1].read /\ ~job.log[2].reported
    /\ job.log[3].read # job.log[2].read /\ ~job.log[3].reported

\* the scan a default command with a number starts in the session an
\* outcome leaves
ScanAfter(o) ==
    handler__default(SessionOf(o), mem, 1, "number", ZeroUserValue, TRUE).driver

\* the session of an outcome is fresh: no store, no matches, the regions
\* read_maps gives for its target, and the next scan is a first scan
Fresh(o) ==
    /\ o.matches = NoStore /\ o.num_matches = 0
    /\ o.regions = (IF o.target # 0 THEN Maps(o.target) ELSE <<>>)
    /\ ScanAfter(o) # "sm_checkmatches"
    /\ (o.target # 0 /\ o.scan_data_type = "ANYNUMBER") => ScanAfter(o) = "sm_searchregions"

\* a successful reset that leaves a session that is not fresh
C25_StaleReset(o, c) == o.ret /\ ~Fresh(o)

\* a successful pid command with a valid pid that leaves a session that is
\* not fresh or not on that pid
C25_StalePid(o, c) ==
    /\ c.argc = 2 /\ c.pid_arg # 0 /\ o.ret
    /\ ~(Fresh(o) /\ o.target = c.pid_arg)

\* C25: after a successful reset, and after a successful pid command with a
\* valid pid, the session has no match store, num_matches = 0 and the
\* regions list read_maps returns for the current target; the matches and
\* regions of before are gone and the next scan is a first scan.
C25_Fresh ==
    /\ ~(\E a \in ResetInputs : C25_StaleReset(ResetOutcome(a), a))
    /\ ~(\E a \in PidInputs : C25_StalePid(PidOutcome(a), a))

\* a reset that succeeds
C25_Reset(o, c) == o.ret

\* a pid command that moves the session to another target
C25_Pid(o, c) == c.argc = 2 /\ c.pid_arg # 0 /\ c.pid_arg # target /\ o.ret

\* a session with matches and with a region dropped, where both succeed
C25_Witness ==
    /\ target # 0 /\ num_matches > 0
    /\ regions # Maps(target)
    /\ (\E a \in ResetInputs : C25_Reset(ResetOutcome(a), a))
    /\ (\E a \in PidInputs : C25_Pid(PidOutcome(a), a))

\* the session is in the INIT state
InInit(o) ==
    o.target = 0 /\ o.matches = NoStore /\ o.num_matches = 0 /\ o.regions = <<>>

\* a reset with a target whose maps cannot be read that does not fail into
\* the INIT state
C30_WrongReset(o, c) == target # 0 /\ ~c.maps_ok /\ ~(~o.ret /\ InInit(o))

\* a pid command with a valid pid whose maps cannot be read that does not
\* fail into the INIT state
C30_WrongPid(o, c) ==
    c.argc = 2 /\ c.pid_arg # 0 /\ ~c.maps_ok /\ ~(~o.ret /\ InInit(o))

\* C30: when reading the target's maps fails during reset, or during pid,
\* which runs reset, the command returns failure with the target cleared to
\* 0, no match store, num_matches = 0 and an empty regions list.
C30_BackToInit ==
    /\ ~(\E a \in ResetInputs : C30_WrongReset(ResetOutcome(a), a))
    /\ ~(\E a \in PidInputs : C30_WrongPid(PidOutcome(a), a))

\* a reset whose read of the maps fails
C30_Reset(o, c) == ~c.maps_ok /\ ~o.ret

\* a pid command with a valid pid whose read of the maps fails
C30_Pid(o, c) == c.argc = 2 /\ c.pid_arg # 0 /\ ~c.maps_ok /\ ~o.ret

\* a session with a target, matches and regions, where both fail
C30_Witness ==
    /\ target # 0 /\ num_matches > 0 /\ regions # <<>>
    /\ (\E a \in ResetInputs : C30_Reset(ResetOutcome(a), a))
    /\ (\E a \in PidInputs : C30_Pid(PidOutcome(a), a))

\* the lines a list command prints in the session as it is
Listed == handler__list(Session, TRUE).lines

\* the lines are numbered 0, 1, 2, ... and there is one for each entry
\* with flags, and the line numbered k shows the address of nth_match(k)
C26_Numbered ==
    /\ Len(Listed) = Cardinality(Flagged)
    /\ \A k \in 1..Len(Listed) :
          /\ Listed[k].no = k - 1
          /\ nth_match(matches, k - 1).swath # 0
          /\ Listed[k].addr = nth_match(matches, k - 1).addr
    /\ nth_match(matches, Len(Listed)).swath = 0

\* the lines are in ascending order of their addresses
C26_Ascending == \A k \in 1..(Len(Listed) - 1) : Listed[k].addr < Listed[k + 1].addr

\* C26 as claimed: list prints one line per entry with max width > 0, in
\* ascending address order, numbered 0, 1, 2, ... without gaps, the line
\* numbered k showing the address of nth_match(store, k).
C26_AsClaimed == C26_Numbered /\ C26_Ascending

\* the place among the entries of the session's store of its match number k
\* (0-indexed), 0 when there are fewer
MatchPlace(k) ==
    IF \E p \in Flagged : Cardinality({q \in Flagged : q < p}) = k
    THEN CHOOSE p \in Flagged : Cardinality({q \in Flagged : q < p}) = k
    ELSE 0

\* the swaths of the store st have the places, the lengths and the old values
\* of the swaths of the session's store
SameSwaths(st) ==
    /\ Len(st.swaths) = Len(matches.swaths)
    /\ \A w \in 1..Len(matches.swaths) :
          /\ st.swaths[w].first_byte_in_child = matches.swaths[w].first_byte_in_child
          /\ st.swaths[w].number_of_bytes = matches.swaths[w].number_of_bytes
          /\ Len(st.swaths[w].data) = Len(matches.swaths[w].data)
          /\ \A i \in 1..Len(matches.swaths[w].data) :
                st.swaths[w].data[i].old_value = matches.swaths[w].data[i].old_value

\* the flags of the store st are those of the session's store but for the
\* entry at place p, which has none
ClearedAt(st, p) ==
    /\ Len(Enumerate(st.swaths)) = Len(Entries)
    /\ \A i \in 1..Len(Entries) :
          Enumerate(st.swaths)[i].elem.match_info =
              IF i = p THEN {} ELSE Entries[i].elem.match_info

\* nth_match on the store st is nth_match on the session's store with the
\* ordinals from k on moved down by one
Shifted(st, k) ==
    \A j \in 0..Len(Entries) :
        nth_match(st, j) = nth_match(matches, IF j < k THEN j ELSE j + 1)

\* a successful delete that did something else than clearing its match
C27_Wrong(o, c) ==
    /\ o.ret = TRUE
    /\ ~(/\ ~o.crashed
         /\ MatchPlace(c.id) # 0
         /\ Entries[MatchPlace(c.id)].addr = nth_match(matches, c.id).addr
         /\ SameSwaths(o.matches)
         /\ ClearedAt(o.matches, MatchPlace(c.id))
         /\ Shifted(o.matches, c.id))

\* C27: a successful `delete k` clears the match flags of exactly the entry
\* nth_match(k); first_byte_in_child, number_of_bytes and every old value of
\* every swath and the flags of every other entry are unchanged; afterwards
\* nth_match(j) is unchanged for j < k and is the former nth_match(j + 1)
\* for j >= k.
C27_Cleared == ~(\E a \in DeleteInputs : C27_Wrong(DeleteOutcome(a), a))

\* a successful delete of the ordinal k
C27_Deleted(o, c, k) == c.argc = 2 /\ c.parse_ok /\ c.id = k /\ o.ret = TRUE

\* three matches with old values that are not all 0, of which the first, the
\* middle and the last can each be deleted
C27_Witness ==
    /\ num_matches = 3
    /\ \E i \in 1..Len(Entries) : Entries[i].elem.old_value # 0
    /\ \A k \in 0..2 : \E a \in DeleteInputs : C27_Deleted(DeleteOutcome(a), a, k)

\* the outcome o of a scan-launching command invoked a scan driver
Drove(o) == o.driver # "none"

\* some scan-launching command invokes a scan driver in the session as it is
SomeScanDrives ==
    \/ \E a \in DefaultInputs : Drove(DefaultOutcome(a))
    \/ \E a \in StringInputs : Drove(StringOutcome(a))
    \/ \E a \in DecincInputs : Drove(DecincOutcome(a))
    \/ \E a \in SnapshotInputs : Drove(SnapshotOutcome(a))
    \/ \E a \in UpdateInputs : Drove(UpdateOutcome(a))

\* no scan-launching command invokes a scan driver while no target is set
C31_NoScan == target = 0 => ~SomeScanDrives

\* no match store exists while no target is set
C31_NoStore == target = 0 => matches = NoStore

\* C31 as claimed: the scan driver is never invoked while target = 0, every
\* scan-launching command fails without scanning in the INIT state, and a
\* match store never exists while target = 0.
C31_AsClaimed == C31_NoScan /\ C31_NoStore

\* the regions list is sorted by ascending start address
C32_Sorted == \A i \in 1..(Len(regions) - 1) : regions[i].start < regions[i + 1].start

\* list reports for every match inside a region of the list that region's id
C32_Reported ==
    \A k \in 1..Len(Listed) : \A i \in 1..Len(regions) :
        InRegion(Listed[k].addr, regions[i]) => Listed[k].region_id = regions[i].id

\* C32 as claimed: after any sequence of pid, reset and dregion commands the
\* regions list is sorted by ascending start address, and list reports for
\* every match lying inside a region of the list that region's id, never
\* the placeholder 99.
C32_AsClaimed == C32_Sorted /\ C32_Reported

\* the last command was a write of a bytearray with a wildcard that passed
\* the checks of its arguments
WildcardWrite ==
    /\ job.handler = "write"
    /\ job.c \in WriteTaken
    /\ job.c.type = "bytearray"
    /\ \E i \in 1..Len(job.c.arr) : job.c.arr[i].is_wildcard

\* the preliminary read of the last write failed
ReadFailed ==
    \/ job.target = 0
    \/ ~job.c.read_ok
    \/ \E i \in 1..Len(job.c.arr) : job.c.addr + i - 1 \notin MemAddrs

\* the target's byte at place i of the last write
ByteAt(memory, i) == memory[job.c.addr + i - 1]

\* C33: `write bytearray addr b1 ... bn` with wildcards leaves the target
\* bytes at wildcard positions as they were before the command and, when it
\* succeeds, sets the bytes at the other positions to the given values; if
\* the preliminary read fails, nothing is written and the command returns
\* failure.
C33_Wildcards ==
    WildcardWrite =>
        IF ReadFailed THEN job.ret = FALSE /\ job.post = job.pre
        ELSE /\ \A i \in 1..Len(job.c.arr) :
                   job.c.arr[i].is_wildcard => ByteAt(job.post, i) = ByteAt(job.pre, i)
             /\ job.ret = TRUE =>
                   \A i \in 1..Len(job.c.arr) :
                       ~job.c.arr[i].is_wildcard => ByteAt(job.post, i) = job.c.arr[i].byte
             /\ \A x \in MemAddrs :
                   (x < job.c.addr \/ x >= job.c.addr + Len(job.c.arr)) => job.post[x] = job.pre[x]

\* a successful write that kept a 1 under its wildcard and changed the byte
\* behind it
C33_Witness ==
    /\ WildcardWrite /\ ~ReadFailed /\ job.ret = TRUE
    /\ job.c.arr = <<[is_wildcard |-> TRUE, byte |-> 0], [is_wildcard |-> FALSE, byte |-> 1]>>
    /\ ByteAt(job.pre, 1) = 1 /\ ByteAt(job.pre, 2) = 0
    /\ ByteAt(job.post, 1) = 1 /\ ByteAt(job.post, 2) = 1

\* C34: the doubling loop of allocate_enough_to_reach terminates for every
\* store reachable through allocate and add_element: bytes_allocated is at
\* least 1 whenever growth is requested, and no add_element call stays in
\* the loop.
C34_Terminates ==
    /\ status # "hung"
    /\ (status = "run" /\ arr # NULL) => store.bytes_allocated >= 1
    /\ last.op = "add" => last.res # "hang" /\ last.store.bytes_allocated >= 1

\* an add_element call whose request did not fit, so that the loop ran,
\* and which returned
C34_Witness ==
    /\ last.op = "add" /\ last.res = "grown" /\ status = "run"
    /\ store.bytes_allocated > last.store.bytes_allocated

\* the interruptible section is closed when set returns
C35_Set == (job.handler = "set" /\ job.pc = "returned") => ~job.interruptible

\* C35 as claimed: every path through set and watch that enters the
\* interruptible section leaves it before the handler returns, on the
\* success, failure and cancellation paths.
C35_AsClaimed == job.pc = "returned" => ~job.interruptible

\* an inverted dregion past the lone-'!' check that reaches its final sweep
\* with an empty keep list: keep->head is null where it is dereferenced
C36_NullHead(o, c) ==
    /\ target # 0 /\ c.argc = 2 /\ c.invert /\ ~c.lone
    /\ o.crashed

\* C36 as claimed: whenever an inverted dregion reaches its final sweep, its
\* keep list holds at least one region, for every argument that passes the
\* lone-'!' check, an argument of comma separators only included.
C36_AsClaimed == ~(\E a \in DregionInputs : C36_NullHead(DregionOutcome(a), a))

\* the entries i..j of the swath sw are padding: no add_element call put an
\* element at their addresses
PaddingRun(sw, i, j) ==
    \A x \in i..j : (sw.first_byte_in_child + x - 1) \notin AddedAddrs

\* consecutive swaths lie at least a swath header and an entry apart,
\* counted from the last address of the earlier one
C37_Apart ==
    \A k \in 1..(Len(store.swaths) - 1) :
        (store.swaths[k + 1].first_byte_in_child
            - remote_address_of_last_element(store.swaths[k])) * sizeof_entry
        >= sizeof_swath + sizeof_entry

\* every run of padding entries inside a swath is shorter than that
C37_ShortRuns ==
    \A k \in 1..Len(store.swaths) :
        \A i \in 1..store.swaths[k].number_of_bytes :
            \A j \in i..store.swaths[k].number_of_bytes :
                PaddingRun(store.swaths[k], i, j) =>
                    (j - i + 1) * sizeof_entry < sizeof_swath + sizeof_entry

\* C37: after any sequence of add_element calls with strictly increasing
\* addresses, for every two consecutive swaths the distance in entries from
\* the last address of the earlier to the first address of the later,
\* times sizeof(entry), is at least sizeof(swath header) + sizeof(entry),
\* and inside a swath every run of padding entries is shorter than that.
C37_Spacing == C37_Apart /\ C37_ShortRuns

\* two swaths exactly the threshold apart, the earlier with the longest
\* run of padding there can be
C37_Witness ==
    /\ status = "run" /\ Len(store.swaths) = 2
    /\ (store.swaths[2].first_byte_in_child
           - remote_address_of_last_element(store.swaths[1])) * sizeof_entry
        = sizeof_swath + sizeof_entry
    /\ \E i \in 1..store.swaths[1].number_of_bytes :
          /\ i + ThresholdEntries - 3 <= store.swaths[1].number_of_bytes
          /\ PaddingRun(store.swaths[1], i, i + ThresholdEntries - 3)

====
